---- MODULE Spec2Model ----
(***************************************************************************)
(* Model of the traversal engine of saed: the breadth-first column run of  *)
(* RunExecutor.execute_column / execute_column_async, the Decision Engine  *)
(* DetailedSelector.select with its two strategies select_single and       *)
(* select_edm, and the retry wrapper _call_llm_with_retry; and of the      *)
(* ontology graph OntologyDAG.build_dag / get_children with its depth      *)
(* cache OntologyCache.build_from_dag and CachedTree.get_subtree.          *)
(*                                                                         *)
(* Spec is a column run; CallSpec is one call of DetailedSelector.select   *)
(* on a list of candidates, outside a column run.  FormsSpec is a column   *)
(* run in the blocking form followed by the same run, with the same        *)
(* oracle outcomes, in the suspension-point form.  InterleavedSpec is two  *)
(* suspension-point runs on one executor that take turns at their awaits,  *)
(* each followed by the same run made alone.  LibrarySpec is the           *)
(* construction of a graph from the classes of an ontology source, of its  *)
(* cache, and calls of get_children and get_subtree on them.  AliasSpec    *)
(* adds a caller that changes a list or a dict it was handed, SerialSpec   *)
(* adds OntologyCache.save and load of a tree.  StreamSpec is a run of     *)
(* execute_run_background over one column and a stream_run request that    *)
(* reads its events.                                                       *)
(*                                                                         *)
(* Python lists are sequences, dicts are functions, None is the string     *)
(* "None" for names and texts and the empty sequence for optional records  *)
(* (a present record r is <<r>>).  The text of an oracle answer is the     *)
(* sequence of its characters; a class name is one character long.         *)
(***************************************************************************)
EXTENDS Integers, Sequences, FiniteSets, TLC

\* ------------------------------------------------------------------ bounds
\* max_depth of a run is drawn from 0..MaxDepthBound
MaxDepthBound == 3
\* an oracle answer lists at most MaxAnswerLen names
MaxAnswerLen == 2

\* ------------------------------------------------------- program constants
max_retries == 3

None == "None"
Terminated == "[terminated]"
AllStepsFailed == "All steps failed"
\* a class name the oracle makes up: it is no node's name
Hallucinated == "X"
\* the text of an exception that leaves the retry wrapper
EscapedError == "internal error"

NoneOpt == <<>>
Some(x) == <<x>>

Range(s) == {s[i] : i \in 1..Len(s)}
InSeq(x, s) == \E i \in 1..Len(s) : s[i] = x

\* ------------------------------------------------------------ the graphs
\* OntologyDAG: root, nodes (url -> name of the OntologyClass), and
\* edges_subclassof (parent url -> list of child urls).

\* an OntologyDAG on which build_dag was never called
GEmpty == [root |-> None, nodes |-> <<>>, edges |-> <<>>]

\* a single class
GLeaf == [root |-> "r", nodes |-> ("r" :> "R"), edges |-> <<>>]

\* R -> {A, B}, A -> {C}, B a leaf
GTree ==
  [root  |-> "r",
   nodes |-> ("r" :> "R" @@ "a" :> "A" @@ "b" :> "B" @@ "c" :> "C"),
   edges |-> ("r" :> <<"a", "b">> @@ "a" :> <<"c">>)]

\* B is a child of R and of A: it is reached at level 1 and at level 2
GDiamond ==
  [root  |-> "r",
   nodes |-> ("r" :> "R" @@ "a" :> "A" @@ "b" :> "B" @@ "c" :> "C"),
   edges |-> ("r" :> <<"a", "b">> @@ "a" :> <<"b">> @@ "b" :> <<"c">>)]

\* A and B are subclasses of each other
GCycle ==
  [root  |-> "r",
   nodes |-> ("r" :> "R" @@ "a" :> "A" @@ "b" :> "B"),
   edges |-> ("r" :> <<"a">> @@ "a" :> <<"b">> @@ "b" :> <<"a">>)]

\* the only child of R is a url with no OntologyClass (an imported class)
GMissing ==
  [root  |-> "r",
   nodes |-> ("r" :> "R"),
   edges |-> ("r" :> <<"u">>)]

Graphs == {GEmpty, GLeaf, GTree, GDiamond, GCycle, GMissing}

\* the graphs of the runs in the ensemble strategy
EdmGraphs == {GLeaf, GTree}

\* ontology_dag.nodes.get(url) is not None
HasNode(g, url) == url \in DOMAIN g.nodes

\* ontology_dag.edges_subclassof.get(parent_url, [])
EdgesGet(g, url) == IF url \in DOMAIN g.edges THEN g.edges[url] ELSE <<>>

\* parent_node.name if parent_node else parent_url
ParentName(g, url) == IF HasNode(g, url) THEN g.nodes[url] ELSE url

\* the names of the children that have a node, in children-list order
RECURSIVE CandidateNames(_, _)
CandidateNames(g, urls) ==
  IF urls = <<>> THEN <<>>
  ELSE LET rest == CandidateNames(g, Tail(urls))
       IN  IF HasNode(g, Head(urls)) THEN <<g.nodes[Head(urls)]>> \o rest ELSE rest

\* variant of SelectedUrl: the first child url that has a node, whatever its
\* name
RECURSIVE SelectedUrlAny(_, _, _)
SelectedUrlAny(g, urls, selected_name) ==
  IF urls = <<>> THEN None
  ELSE IF HasNode(g, Head(urls)) THEN Head(urls)
       ELSE SelectedUrlAny(g, Tail(urls), selected_name)

\* the first child url whose node carries selected_name, or None
RECURSIVE SelectedUrl(_, _, _)
SelectedUrl(g, urls, selected_name) ==
  IF urls = <<>> THEN None
  ELSE IF HasNode(g, Head(urls)) /\ g.nodes[Head(urls)] = selected_name
       THEN Head(urls)
       ELSE SelectedUrl(g, Tail(urls), selected_name)

\* ------------------------------------------------ graph construction
\* Thing.iri
Thing == "thing"
\* a parent without an iri (a restriction)
Restriction == "restriction"
\* the iri of a class of another ontology
External == "e"

\* cls.name of the class with the iri url
ClassName == ("a" :> "A" @@ "b" :> "B" @@ "c" :> "C" @@ "d" :> "D")

\* d[key] = value
Put(d, key, value) ==
  [k \in DOMAIN d \cup {key} |-> IF k = key THEN value ELSE d[k]]

\* d.get(key, [])
GetOrEmpty(d, key) == IF key \in DOMAIN d THEN d[key] ELSE <<>>

\* dag.py lines 77-86: the edges after the parents is_a of the class url
RECURSIVE AddParents(_, _, _)
AddParents(edges, url, is_a) ==
  IF is_a = <<>> THEN edges
  ELSE LET parent == Head(is_a)
       IN  IF parent = Restriction \/ parent = url
           THEN AddParents(edges, url, Tail(is_a))
           ELSE AddParents(Put(edges, parent,
                               Append(GetOrEmpty(edges, parent), url)),
                           url, Tail(is_a))

\* dag.py lines 61-86: the loop over onto.classes()
RECURSIVE CollectClasses(_, _)
CollectClasses(cs, dag) ==
  IF cs = <<>> THEN dag
  ELSE CollectClasses(
         Tail(cs),
         [dag EXCEPT !.nodes = Put(@, Head(cs).url, ClassName[Head(cs).url]),
                     !.edges = AddParents(@, Head(cs).url, Head(cs).is_a)])

\* dag.py lines 96-98
AllChildren(edges) == UNION {Range(edges[p]) : p \in DOMAIN edges}

\* variant of RootCandidates: every class is a root candidate
RootCandidatesAll(cs, edges) == [i \in 1..Len(cs) |-> cs[i].url]

\* dag.py line 100: the classes that are no child, in the order of the nodes
RECURSIVE RootCandidates(_, _)
RootCandidates(cs, edges) ==
  IF cs = <<>> THEN <<>>
  ELSE (IF Head(cs).url \notin AllChildren(edges) THEN <<Head(cs).url>>
        ELSE <<>>) \o RootCandidates(Tail(cs), edges)

\* variant of ResolveRoot: without a root candidate the graph is the virtual
\* root alone
ResolveRootSole(cs, dag) ==
  LET root_candidates == RootCandidates(cs, dag.edges)
  IN  IF Len(root_candidates) = 1
      THEN [dag EXCEPT !.root = root_candidates[1]]
      ELSE IF Len(root_candidates) > 1
      THEN [root |-> Thing,
            nodes |-> Put(dag.nodes, Thing, "Thing"),
            edges |-> Put(dag.edges, Thing, root_candidates)]
      ELSE [root |-> Thing, nodes |-> (Thing :> "Thing"), edges |-> <<>>]

\* dag.py lines 100-127
ResolveRoot(cs, dag) ==
  LET root_candidates == RootCandidates(cs, dag.edges)
  IN  IF Len(root_candidates) = 1
      THEN [dag EXCEPT !.root = root_candidates[1]]
      ELSE IF Len(root_candidates) > 1
      THEN [root |-> Thing,
            nodes |-> Put(dag.nodes, Thing, "Thing"),
            edges |-> Put(dag.edges, Thing, root_candidates)]
      ELSE [dag EXCEPT !.root = Thing,
                       !.nodes = IF Thing \in DOMAIN @ THEN @
                                 ELSE Put(@, Thing, "Thing")]

\* OntologyDAG.build_dag on a new OntologyDAG
BuildDag(cs) == ResolveRoot(cs, CollectClasses(cs, GEmpty))

\* variant of AfterGet: the lookup d[key] of a defaultdict(list)
AfterGetItem(d, key) == IF key \in DOMAIN d THEN d ELSE Put(d, key, <<>>)

\* the dict d after d.get(key, []): it is left alone
AfterGet(d, key) == d

\* ------------------------------------------------------ the depth cache
\* cls.label[0] of the class with the iri url, None for a class without a
\* label; the virtual root is labelled "Thing" (dag.py lines 65-68, 112)
ClassLabel(url) ==
  CASE url = "a" -> "class A"
    [] url = "c" -> "class C"
    [] url = Thing -> "Thing"
    [] OTHER -> None

\* CachedNode; the label is that of the class, and the comment is carried
\* like the label
CachedNode(url, name, children, depth, has_more) ==
  [url |-> url, name |-> name, label |-> ClassLabel(url),
   children |-> children, depth |-> depth, has_more |-> has_more]

\* data.get(key, default)
DictGet(data, key, default) ==
  IF key \in DOMAIN data THEN data[key] ELSE default

\* cache.py lines 27-37: CachedNode.to_dict
NodeToDict(node) ==
  "url" :> node.url @@ "name" :> node.name @@ "label" :> node.label
    @@ "children" :> node.children @@ "depth" :> node.depth
    @@ "has_more" :> node.has_more

\* variant of NodeFromDict: has_more is not read
NodeFromDictUnflagged(data) ==
  [url |-> data["url"], name |-> data["name"],
   label |-> DictGet(data, "label", None),
   children |-> DictGet(data, "children", <<>>),
   depth |-> DictGet(data, "depth", 0),
   has_more |-> FALSE]

\* cache.py lines 39-50: CachedNode.from_dict
NodeFromDict(data) ==
  [url |-> data["url"], name |-> data["name"],
   label |-> DictGet(data, "label", None),
   children |-> DictGet(data, "children", <<>>),
   depth |-> DictGet(data, "depth", 0),
   has_more |-> DictGet(data, "has_more", FALSE)]

\* cache.py lines 61-67: CachedTree.to_dict
TreeToDict(tree) ==
  "root" :> tree.root
    @@ "nodes" :> [url \in DOMAIN tree.nodes |-> NodeToDict(tree.nodes[url])]
    @@ "metadata" :> tree.metadata

\* cache.py lines 69-80: CachedTree.from_dict
TreeFromDict(data) ==
  [root |-> data["root"],
   nodes |-> [url \in DOMAIN DictGet(data, "nodes", <<>>) |->
                NodeFromDict(DictGet(data, "nodes", <<>>)[url])],
   metadata |-> DictGet(data, "metadata", <<>>)]

\* cache.py lines 133-135, 265-267: the queue entries of the children that
\* are not visited
RECURSIVE Unvisited(_, _, _)
Unvisited(children, visited, depth) ==
  IF children = <<>> THEN <<>>
  ELSE (IF Head(children) \notin visited THEN << <<Head(children), depth>> >>
        ELSE <<>>) \o Unvisited(Tail(children), visited, depth)

\* variant of ChildDepth: a child is as deep as the node it was found from
ChildDepthSame(depth) == depth

\* cache.py line 267: depth + 1
ChildDepth(depth) == depth + 1

\* variant of Enqueue: the entries are put in front of the queue
EnqueueFront(q, entries) == entries \o q

\* cache.py line 267: queue.append for every entry
Enqueue(q, entries) == q \o entries

\* cache.py lines 253-267: the walk from the root that fills depths
RECURSIVE Depths(_, _, _, _)
Depths(edges, q, visited, depths) ==
  IF q = <<>> THEN depths
  ELSE LET url == Head(q)[1]
           depth == Head(q)[2]
       IN  IF url \in visited THEN Depths(edges, Tail(q), visited, depths)
           ELSE Depths(edges,
                       Enqueue(Tail(q), Unvisited(GetOrEmpty(edges, url),
                                                  visited \cup {url},
                                                  ChildDepth(depth))),
                       visited \cup {url},
                       Put(depths, url, depth))

\* the largest of the numbers of S and 0
MaxOf(S) == CHOOSE x \in S \cup {0} : \A y \in S \cup {0} : y <= x

\* OntologyCache.build_from_dag; metadata.max_depth is Some(n), or NoneOpt
\* for None
BuildFromDag(dag) ==
  LET depths == Depths(dag.edges, << <<dag.root, 0>> >>, {}, <<>>)
      nodes == [url \in DOMAIN dag.nodes |->
                  CachedNode(url, dag.nodes[url], GetOrEmpty(dag.edges, url),
                             IF url \in DOMAIN depths THEN depths[url] ELSE 0,
                             FALSE)]
  IN  [root |-> dag.root,
       nodes |-> nodes,
       metadata |-> [total_nodes |-> Cardinality(DOMAIN nodes),
                     max_depth |-> Some(MaxOf({nodes[url].depth :
                                                 url \in DOMAIN nodes}))]]

\* cache.py lines 96-99
StartUrl(tree, root_url) ==
  LET start_url == IF root_url # None THEN root_url ELSE tree.root
  IN  IF start_url \notin DOMAIN tree.nodes /\ start_url # tree.root
      THEN tree.root ELSE start_url

\* variant of CutHasMore: a node at the limit never has more
CutHasMoreNever(node) == FALSE

\* cache.py line 129
CutHasMore(node) == Len(node.children) > 0

\* variant of HasMore: a node that is not at the limit never has more
HasMoreNever(tree, node, max_depth, relative_depth) == FALSE

\* cache.py lines 138-145
HasMore(tree, node, max_depth, relative_depth) ==
  /\ max_depth # NoneOpt
  /\ \E i \in 1..Len(node.children) :
       /\ node.children[i] \in DOMAIN tree.nodes
       /\ Len(tree.nodes[node.children[i]].children) > 0
       /\ relative_depth + 1 >= max_depth[1]

\* cache.py lines 102-155: the walk that fills result_nodes
RECURSIVE SubtreeNodes(_, _, _, _, _)
SubtreeNodes(tree, max_depth, q, visited, result_nodes) ==
  IF q = <<>> THEN result_nodes
  ELSE LET url == Head(q)[1]
           relative_depth == Head(q)[2]
       IN  IF url \in visited
           THEN SubtreeNodes(tree, max_depth, Tail(q), visited, result_nodes)
           ELSE IF url \notin DOMAIN tree.nodes
           THEN SubtreeNodes(tree, max_depth, Tail(q), visited \cup {url},
                             result_nodes)
           ELSE LET node == tree.nodes[url]
                IN  IF max_depth # NoneOpt /\ relative_depth >= max_depth[1]
                    THEN SubtreeNodes(
                           tree, max_depth, Tail(q), visited \cup {url},
                           Put(result_nodes, url,
                               CachedNode(node.url, node.name, <<>>,
                                          node.depth, CutHasMore(node))))
                    ELSE SubtreeNodes(
                           tree, max_depth,
                           Tail(q) \o Unvisited(node.children,
                                                visited \cup {url},
                                                relative_depth + 1),
                           visited \cup {url},
                           Put(result_nodes, url,
                               CachedNode(node.url, node.name, node.children,
                                          node.depth,
                                          HasMore(tree, node, max_depth,
                                                  relative_depth))))

\* cache.py lines 102-155: the nodes of the result that were given the
\* children list of the node of the tree itself (line 152), not a new list
\* (line 127)
RECURSIVE SharedLists(_, _, _, _, _)
SharedLists(tree, max_depth, q, visited, shared) ==
  IF q = <<>> THEN shared
  ELSE LET url == Head(q)[1]
           relative_depth == Head(q)[2]
       IN  IF url \in visited
           THEN SharedLists(tree, max_depth, Tail(q), visited, shared)
           ELSE IF url \notin DOMAIN tree.nodes
                   \/ (max_depth # NoneOpt /\ relative_depth >= max_depth[1])
           THEN SharedLists(tree, max_depth, Tail(q), visited \cup {url},
                            shared)
           ELSE SharedLists(tree, max_depth,
                            Tail(q) \o Unvisited(tree.nodes[url].children,
                                                 visited \cup {url},
                                                 relative_depth + 1),
                            visited \cup {url}, shared \cup {url})

\* variant of AfterSubtree: has_more and the cut children are written to
\* the nodes of the tree itself
AfterSubtreeWritten(tree, result_nodes) ==
  [tree EXCEPT !.nodes = [url \in DOMAIN @ |->
                            IF url \in DOMAIN result_nodes
                            THEN result_nodes[url] ELSE @[url]]]

\* the tree after get_subtree built result_nodes: the call assigns to its
\* locals and to the new nodes only
AfterSubtree(tree, result_nodes) == tree

\* CachedTree.get_subtree; max_depth is Some(n), or NoneOpt for None
GetSubtree(tree, root_url, max_depth) ==
  LET start_url == StartUrl(tree, root_url)
      result_nodes == SubtreeNodes(tree, max_depth, << <<start_url, 0>> >>,
                                   {}, <<>>)
  IN  [root |-> start_url,
       nodes |-> result_nodes,
       metadata |-> [total_nodes |-> tree.metadata.total_nodes,
                     max_depth |-> max_depth,
                     truncated |-> /\ max_depth # NoneOpt
                                   /\ Cardinality(DOMAIN result_nodes)
                                        < Cardinality(DOMAIN tree.nodes),
                     subtree_root |-> start_url]]

\* ------------------------------------------------- the Decision Engine
\* SelectionResult
Result(selected, st, err, request, response) ==
  [selected |-> selected, status |-> st, error |-> err,
   llm_request |-> request, llm_response |-> response, edm_result |-> NoneOpt]

\* LLMRequestDetail: the prompt lists the candidates
Request(cands) == [prompt |-> cands, model |-> "model"]

\* LLMResponseDetail of an attempt that returned
Response(answer) == [raw |-> "response", answer |-> answer]

\* variant of ExhaustedResponse: the error text is put in the answer
ExhaustedResponseAnswers == [raw |-> "Error after 3 retries", answer |-> <<"A">>]

\* LLMResponseDetail when every attempt raised
ExhaustedResponse == [raw |-> "Error after 3 retries", answer |-> <<>>]

\* the characters of an answer beside the names
Comma == ","
Space == " "
Sentinel == "-"

\* the str whose characters are s
RECURSIVE Text(_)
Text(s) == IF s = <<>> THEN "" ELSE Head(s) \o Text(Tail(s))

\* str.strip()
RECURSIVE LStrip(_)
LStrip(s) == IF s # <<>> /\ Head(s) = Space THEN LStrip(Tail(s)) ELSE s

RECURSIVE RStrip(_)
RStrip(s) ==
  IF s # <<>> /\ s[Len(s)] = Space THEN RStrip(SubSeq(s, 1, Len(s) - 1)) ELSE s

Strip(s) == RStrip(LStrip(s))

\* the pieces of piece + s, piece holding no comma
RECURSIVE SplitFrom(_, _)
SplitFrom(s, piece) ==
  IF s = <<>> THEN <<piece>>
  ELSE IF Head(s) = Comma THEN <<piece>> \o SplitFrom(Tail(s), <<>>)
  ELSE SplitFrom(Tail(s), Append(piece, Head(s)))

\* str.split(","): the pieces between the commas, empty pieces included
Split(s) == SplitFrom(s, <<>>)

\* [cls.strip() for cls in pieces]
RECURSIVE Stripped(_)
Stripped(pieces) ==
  IF pieces = <<>> THEN <<>>
  ELSE <<Text(Strip(Head(pieces)))>> \o Stripped(Tail(pieces))

\* parse_class_list: [cls.strip() for cls in answer.split(",")]; the empty
\* answer and the sentinel "-" give no name. The answer is split once, into
\* pieces
ParseClassList(answer) ==
  IF answer = <<>> \/ answer = <<Sentinel>> THEN <<>>
  ELSE CHOOSE names \in {Stripped(pieces) : pieces \in {Split(answer)}} : TRUE

\* variant of FilterCandidates: every parsed name is kept
FilterNothing(predicted, cands) == predicted

\* [cls for cls in predicted if cls in candidates]
FilterCandidates(predicted, cands) ==
  SelectSeq(predicted, LAMBDA cls : InSeq(cls, cands))

\* select_single after the retry wrapper returned (request, response)
SelectSingleReturn(cands, response) ==
  IF response.answer = <<>> \/ response.answer = <<Sentinel>>
  THEN Result(<<>>, "completed", None, Some(Request(cands)), Some(response))
  ELSE Result(FilterCandidates(ParseClassList(response.answer), cands),
              "completed", None, Some(Request(cands)), Some(response))

\* select_single when an exception left the retry wrapper
SelectSingleRaised(e) == Result(<<>>, "failed", e, NoneOpt, NoneOpt)

\* variant of Backoff: a constant wait of 1s
BackoffConstant(n) == 1

\* time.sleep(2**attempt)
Backoff(n) == 2 ^ n

\* if attempt < self.max_retries - 1
SleepsAfter(n) == n < max_retries - 1

\* the answer that lists names: "A, B"
RECURSIVE Join(_)
Join(names) ==
  IF names = <<>> THEN <<>>
  ELSE IF Len(names) = 1 THEN names
  ELSE <<Head(names), Comma, Space>> \o Join(Tail(names))

\* what the oracle may answer when shown cands: nothing, the sentinel, up to
\* MaxAnswerLen different names (candidates or the made-up name) in any order,
\* or one candidate twice
Tokens(cands) == Range(cands) \cup {Hallucinated}
NoRepeat(s) == \A i, j \in 1..Len(s) : s[i] = s[j] => i = j
Answers(cands) ==
  {<<Sentinel>>}
  \cup {Join(s) : s \in {t \in UNION {[1..k -> Tokens(cands)] : k \in 0..MaxAnswerLen} :
                           NoRepeat(t)}}
  \cup {Join(<<c, c>>) : c \in Range(cands)}

\* what an ensemble agent's oracle may answer within a column run when shown
\* its assignment: every assigned name (an agent whose attempts all raise
\* answers nothing)
AgentAnswers(assigned) == {Join(assigned)}

\* the names the oracle mentions in a call made outside a column run: the
\* first name it is shown, a second name (a candidate it is not shown if
\* there is one, else the next name it is shown) and the made-up name
CallTokens(shown, cands) ==
  LET hidden == {c \in Range(cands) : ~InSeq(c, shown)}
  IN  {Head(shown), Hallucinated}
      \cup (IF hidden # {} THEN {CHOOSE c \in hidden : TRUE}
            ELSE IF Len(shown) > 1 THEN {shown[2]} ELSE {})

\* what the oracle may answer in such a call: nothing, the sentinel, up to
\* MaxAnswerLen different names, the first name twice, and untidy texts:
\* "A," (an empty piece), "A X" (no comma) and "-, A" (the sentinel among
\* names)
CallAnswers(shown, cands) ==
  LET c == Head(shown)
      names == CallTokens(shown, cands)
  IN  {<<>>, <<Sentinel>>}
      \cup {Join(s) : s \in {t \in UNION {[1..k -> names] : k \in 1..MaxAnswerLen} :
                               NoRepeat(t)}}
      \cup {Join(<<c, c>>), <<c, Comma>>, <<c, Space, Hallucinated>>,
            <<Sentinel, Comma, Space, c>>}

\* ------------------------------------------------ the ensemble strategy
\* EDMOptions; consensus_threshold is the fraction num / den
DefaultEdmOptions ==
  [classes_per_agent |-> 30, agents_per_class |-> 3,
   consensus_threshold |-> [num |-> 8, den |-> 10]]

\* a configuration that accepts a candidate on one vote out of three
LowThresholdOptions ==
  [classes_per_agent |-> 30, agents_per_class |-> 3,
   consensus_threshold |-> [num |-> 3, den |-> 10]]

\* one class per agent and one agent per class: some agent has nothing
\* assigned
SpreadOptions ==
  [classes_per_agent |-> 1, agents_per_class |-> 1,
   consensus_threshold |-> [num |-> 8, den |-> 10]]

\* two agents per class, accepted on one vote out of two
PairOptions ==
  [classes_per_agent |-> 3, agents_per_class |-> 2,
   consensus_threshold |-> [num |-> 5, den |-> 10]]

\* two classes per agent and one agent per class
HalfOptions ==
  [classes_per_agent |-> 2, agents_per_class |-> 1,
   consensus_threshold |-> [num |-> 8, den |-> 10]]

\* no agent per class: nobody sees any candidate
NoAgentOptions ==
  [classes_per_agent |-> 30, agents_per_class |-> 0,
   consensus_threshold |-> [num |-> 8, den |-> 10]]

Max(a, b) == IF a >= b THEN a ELSE b

\* variant of NumAgents: as many agents as agents_per_class
NumAgentsPerClass(num_classes, opts) == opts.agents_per_class

\* lines 368-372
NumAgents(num_classes, opts) ==
  Max(opts.agents_per_class,
      (num_classes * opts.agents_per_class) \div opts.classes_per_agent + 1)

\* variant of AgentChoices: any agents at all may be given to a class
AgentChoicesAny(num_agents, avg_agents_per_class) == SUBSET (1..num_agents)

\* the agents random.sample (or range(num_agents)) may give to one class
AgentChoices(num_agents, avg_agents_per_class) ==
  IF num_agents < avg_agents_per_class THEN {1..num_agents}
  ELSE {S \in SUBSET (1..num_agents) : Cardinality(S) = avg_agents_per_class}

\* lines 619-625: the classes appended to one agent's list, from the i-th on
RECURSIVE AssignedTo(_, _, _, _)
AssignedTo(classes, chosen, agent, i) ==
  IF i > Len(classes) THEN <<>>
  ELSE (IF agent \in chosen[i] THEN <<classes[i]>> ELSE <<>>)
       \o AssignedTo(classes, chosen, agent, i + 1)

\* _assign_classes_to_agents, for the agents chosen[i] of the i-th class
AssignClassesToAgents(classes, num_agents, chosen) ==
  IF num_agents = 0 THEN <<classes>>
  ELSE [agent \in 1..num_agents |-> AssignedTo(classes, chosen, agent, 1)]

\* every assignment the random choice can produce
Assignments(classes, opts) ==
  LET n == NumAgents(Len(classes), opts)
  IN  {AssignClassesToAgents(classes, n, chosen) :
         chosen \in [1..Len(classes) -> AgentChoices(n, opts.agents_per_class)]}

\* AgentResultDetail
AgentResult(agent_id, assigned, request, response, voted, st, err) ==
  [agent_id |-> agent_id, assigned_classes |-> assigned,
   llm_request |-> request, llm_response |-> response,
   voted_classes |-> voted, status |-> st, error |-> err]

\* lines 397-401: an agent with nothing assigned
AgentIdle(agent_id) ==
  AgentResult(agent_id, <<>>, NoneOpt, NoneOpt, <<>>, "success", None)

\* variant of AgentVoted: an agent whose response carries the empty answer
\* is recorded as failed
AgentVotedOrFailed(agent_id, assigned, response) ==
  IF response.answer = <<>>
  THEN AgentResult(agent_id, assigned, Some(Request(assigned)),
                   Some(response), <<>>, "failed", EscapedError)
  ELSE AgentResult(agent_id, assigned, Some(Request(assigned)),
                   Some(response),
                   IF response.answer # <<Sentinel>>
                   THEN FilterCandidates(ParseClassList(response.answer),
                                         assigned)
                   ELSE <<>>,
                   "success", None)

\* lines 411-424: the agent's wrapper call returned response
AgentVoted(agent_id, assigned, response) ==
  AgentResult(agent_id, assigned, Some(Request(assigned)), Some(response),
              IF response.answer # <<>> /\ response.answer # <<Sentinel>>
              THEN FilterCandidates(ParseClassList(response.answer), assigned)
              ELSE <<>>,
              "success", None)

\* lines 426-429: an exception left the agent's wrapper call
AgentFailed(agent_id, assigned, e) ==
  AgentResult(agent_id, assigned, NoneOpt, NoneOpt, <<>>, "failed", e)

\* the number of occurrences of x in s
RECURSIVE Count(_, _)
Count(x, s) ==
  IF s = <<>> THEN 0
  ELSE (IF Head(s) = x THEN 1 ELSE 0) + Count(x, Tail(s))

\* lines 419-420: for cls in valid_votes: votes_per_class[cls] += 1
AddVotes(votes, voted) ==
  [c \in DOMAIN votes \cup Range(voted) |->
     (IF c \in DOMAIN votes THEN votes[c] ELSE 0) + Count(c, voted)]

\* votes_per_class[class_] of a defaultdict(int)
VotesOf(votes, c) == IF c \in DOMAIN votes THEN votes[c] ELSE 0

\* lines 380-384
SeenBy(assignments, c) ==
  Cardinality({a \in DOMAIN assignments : InSeq(c, assignments[a])})

\* line 442: percentage >= consensus_threshold and votes > 0
IsSelected(votes, seen_by, threshold) ==
  votes * threshold.den >= threshold.num * seen_by /\ votes > 0

\* VoteSummaryDetail; percentage is the fraction vote_count / total_agents
VoteSummary(c, votes, seen_by, threshold) ==
  [class_name |-> c, vote_count |-> votes, total_agents |-> seen_by,
   selected |-> IsSelected(votes, seen_by, threshold)]

\* lines 437-452: one entry per candidate somebody saw, in candidate order
RECURSIVE VotesSummary(_, _, _, _)
VotesSummary(cands, assignments, votes, threshold) ==
  IF cands = <<>> THEN <<>>
  ELSE LET c == Head(cands)
           rest == VotesSummary(Tail(cands), assignments, votes, threshold)
       IN  IF SeenBy(assignments, c) > 0
           THEN <<VoteSummary(c, VotesOf(votes, c), SeenBy(assignments, c),
                              threshold)>> \o rest
           ELSE rest

\* list.sort(key=vote_count, reverse=True): stable, larger counts first
RECURSIVE InsertByVotes(_, _)
InsertByVotes(v, sorted) ==
  IF sorted = <<>> THEN <<v>>
  ELSE IF Head(sorted).vote_count >= v.vote_count
       THEN <<Head(sorted)>> \o InsertByVotes(v, Tail(sorted))
       ELSE <<v>> \o sorted

RECURSIVE SortByVotes(_)
SortByVotes(summary) ==
  IF summary = <<>> THEN <<>>
  ELSE InsertByVotes(summary[Len(summary)],
                     SortByVotes(SubSeq(summary, 1, Len(summary) - 1)))

\* lines 454-455: the selected entries, in candidate order
SelectedClasses(summary) ==
  LET chosen == SelectSeq(summary, LAMBDA v : v.selected)
  IN  [i \in 1..Len(chosen) |-> chosen[i].class_name]

\* variant of MajorityFailed: one failed agent fails the outcome
MajorityFailedAny(failed_agents, total) == failed_agents > 0

\* line 470: failed_agents > len(agents_assignments) * 0.5
MajorityFailed(failed_agents, total) == 2 * failed_agents > total

\* line 472: f"{failed_agents}/{len(agents_assignments)} agents failed"
AgentsFailedError(failed_agents, total) ==
  ToString(failed_agents) \o "/" \o ToString(total) \o " agents failed"

\* lines 433-479: the SelectionResult of select_edm
SelectEdmReturn(cands, assignments, agent_results, votes, failed_agents, opts) ==
  LET summary == VotesSummary(cands, assignments, votes, opts.consensus_threshold)
      total == Len(assignments)
  IN  [selected |-> SelectedClasses(summary),
       status |-> IF MajorityFailed(failed_agents, total) THEN "failed"
                  ELSE "completed",
       error |-> IF MajorityFailed(failed_agents, total)
                 THEN AgentsFailedError(failed_agents, total) ELSE None,
       llm_request |-> NoneOpt,
       llm_response |-> NoneOpt,
       edm_result |-> Some([consensus_threshold |-> opts.consensus_threshold,
                            total_agents |-> total,
                            votes_summary |-> SortByVotes(summary),
                            agents |-> agent_results])]

\* ----------------------------------------------------- the column run
VARIABLES
  ontology_dag,     \* the OntologyDAG of the run
  max_depth,        \* RunExecutor.max_depth
  sse_callback,     \* TRUE iff the sink of the blocking form is registered
  async_sse_callback, \* TRUE iff the sink of the suspension-point form is
  form,             \* "blocking": execute_column, "suspension": ..._async
  mode,             \* "single" or "edm"
  edm_options,      \* DetailedSelector.edm_options
  pc,               \* position in execute_column
  queue,            \* deque of (level, parent_url, path_so_far)
  cur,              \* the item popped last
  children_urls,    \* children of cur.parent_url
  candidates,       \* candidate names of cur
  result,           \* SelectionResult of the current step
  steps,            \* list of BFSStepDetail
  final_paths,      \* terminal paths
  selection_cache,  \* parent_url -> SelectionResult
  events,           \* what the progress sink received
  status,           \* ColumnResultDetail.status
  error,            \* ColumnResultDetail.error
  attempt,          \* loop index of the retry wrapper
  sleeps,           \* the time.sleep calls of the current wrapper call
  wrapper,          \* "idle", "running", "returned", "exhausted", "raised"
  edm,              \* the locals of select_edm
  select_calls,     \* history: parent_url of every selector.select call
  step_items,       \* history: the frontier item of every step
  wrapper_calls,    \* history: the retry-wrapper calls of the current select
  tape,             \* the oracle's outcomes and the random choices of a run
  phase,            \* "off", or what tape is used for: "record", "replay"
  first,            \* the results of the runs that were recorded
  other,            \* the frame of the suspended column run, if any
  me,               \* the number of the column run that is running
  onto_classes,     \* onto.classes(): the classes of the ontology source
  cached,           \* the CachedTree built from the OntologyDAG, if any
  returned,         \* what the last call on the graph or the tree returned
  cache_file,       \* the cache file of the ontology, if it was written
  run_pc,           \* where execute_run_background is
  client            \* the generator of a stream_run request and its queue

config == <<ontology_dag, max_depth, sse_callback, async_sse_callback, form,
           mode, edm_options>>
harness == <<phase, first, other, me>>
library == <<onto_classes, cached, returned, cache_file>>
stream == <<run_pc, client>>
retry == <<attempt, sleeps, wrapper>>
column == <<status, error>>

vars == <<config, pc, queue, cur, children_urls, candidates, result, steps,
          final_paths, selection_cache, events, column, retry, edm,
          select_calls, step_items, wrapper_calls, tape, harness, library,
          stream>>

\* the graph of a column run is given: nothing of its construction is kept
NoLibraryCall ==
  /\ onto_classes = <<>> /\ cached = NoneOpt /\ returned = NoneOpt
  /\ cache_file = NoneOpt

\* no stream_run request was made: no queue is registered
NoClient == [pc |-> "absent", joined |-> 0, received |-> <<>>]

\* the executor is not called from execute_run_background
NoStream == run_pc = "none" /\ client = NoClient

\* a frontier item; ord, src and pos are history fields: the number of the
\* pop that took it (0 while queued), the step that enqueued it (0 for the
\* root) and its position in that step's accepted list
Item(level, parent_url, path, src, pos) ==
  [level |-> level, parent_url |-> parent_url, path |-> path,
   ord |-> 0, src |-> src, pos |-> pos]

NoItem == Item(0, None, <<>>, 0, 0)
NoResult == Result(<<>>, "none", None, NoneOpt, NoneOpt)

\* select_edm's agents_assignments, agent_id of the loop, agent_results,
\* votes_per_class and failed_agents
NoEdm ==
  [agents_assignments |-> <<>>, agent_id |-> 0, agent_results |-> <<>>,
   votes_per_class |-> <<>>, failed_agents |-> 0]

Init ==
  /\ mode \in {"single", "edm"}
  /\ ontology_dag \in IF mode = "edm" THEN EdmGraphs ELSE Graphs
  /\ max_depth \in 0..MaxDepthBound
  /\ sse_callback \in BOOLEAN
  /\ async_sse_callback = FALSE
  /\ form = "blocking"
  /\ edm_options \in IF mode = "edm"
                     THEN {DefaultEdmOptions, LowThresholdOptions}
                     ELSE {DefaultEdmOptions}
  /\ pc = "loop"
  /\ queue = <<Item(0, ontology_dag.root, <<>>, 0, 0)>>
  /\ cur = NoItem
  /\ children_urls = <<>>
  /\ candidates = <<>>
  /\ result = NoResult
  /\ steps = <<>>
  /\ final_paths = <<>>
  /\ selection_cache = <<>>
  /\ events = <<>>
  /\ status = "in_progress"
  /\ error = None
  /\ attempt = 0
  /\ sleeps = <<>>
  /\ wrapper = "idle"
  /\ edm = NoEdm
  /\ select_calls = <<>>
  /\ step_items = <<>>
  /\ wrapper_calls = <<>>
  /\ tape = <<>>
  /\ phase = "off"
  /\ first = <<>>
  /\ other = NoneOpt
  /\ me = 1
  /\ NoLibraryCall
  /\ NoStream

\* ten candidates
TenClasses == <<"A", "B", "C", "D", "E", "F", "G", "H", "I", "J">>

\* the arguments of a selector.select call made outside a column run
CallInputs ==
  {[candidates |-> c, edm_options |-> o] :
     c \in {<<>>, <<"A">>, <<"A", "B">>},
     o \in {DefaultEdmOptions, SpreadOptions, PairOptions, NoAgentOptions}}
  \cup {[candidates |-> TenClasses, edm_options |-> DefaultEdmOptions]}

\* DetailedSelector.select is about to be called on a list of candidates; no
\* column run is going on
CallInit ==
  /\ mode \in {"single", "edm"}
  /\ \E input \in CallInputs :
       /\ candidates = input.candidates
       /\ edm_options = IF mode = "edm" THEN input.edm_options
                        ELSE DefaultEdmOptions
  /\ ontology_dag = GEmpty
  /\ max_depth = 0
  /\ sse_callback = FALSE
  /\ async_sse_callback = FALSE
  /\ form = "blocking"
  /\ pc = "call"
  /\ queue = <<>>
  /\ cur = NoItem
  /\ children_urls = <<>>
  /\ result = NoResult
  /\ steps = <<>>
  /\ final_paths = <<>>
  /\ selection_cache = <<>>
  /\ events = <<>>
  /\ status = "in_progress"
  /\ error = None
  /\ attempt = 0
  /\ sleeps = <<>>
  /\ wrapper = "idle"
  /\ edm = NoEdm
  /\ select_calls = <<>>
  /\ step_items = <<>>
  /\ wrapper_calls = <<>>
  /\ tape = <<>>
  /\ phase = "off"
  /\ first = <<>>
  /\ other = NoneOpt
  /\ me = 1
  /\ NoLibraryCall
  /\ NoStream

\* a column run is going on: an item was popped
InColumnRun == cur # NoItem

\* queue.popleft()
PopLeft(q) == Tail(q)

\* variant of IsMemoized: the lookup never hits
IsMemoizedNever(cache, url) == FALSE

\* if parent_url in selection_cache
IsMemoized(cache, url) == url \in DOMAIN cache

\* the number of items popped so far
Popped == IF cur = NoItem THEN 0 ELSE cur.ord

\* variant of AppendIfPath: the empty path is recorded too
AppendAlways(paths, path) == Append(paths, path)

\* if current_path: final_paths.append(current_path)
AppendIfPath(paths, path) == IF path # <<>> THEN Append(paths, path) ELSE paths

\* variant of Cutoff: the depth bound is not looked at
CutoffNoDepth(urls, level) == urls = <<>>

\* not children_urls or level >= self.max_depth
Cutoff(urls, level) == urls = <<>> \/ level >= max_depth

\* the item at the head of the queue, as popped
Popping == [Head(queue) EXCEPT !.ord = Popped + 1]

\* lines 730-754: pop an item that ends its path without a step
DequeueTerminal ==
  /\ pc = "loop" /\ queue # <<>>
  /\ LET item == Popping
         urls == EdgesGet(ontology_dag, item.parent_url)
     IN  /\ Cutoff(urls, item.level) \/ CandidateNames(ontology_dag, urls) = <<>>
         /\ cur' = item
         /\ children_urls' = urls
         /\ candidates' = IF Cutoff(urls, item.level) THEN candidates
                          ELSE CandidateNames(ontology_dag, urls)
         /\ final_paths' = AppendIfPath(final_paths, item.path)
  /\ queue' = PopLeft(queue)
  /\ UNCHANGED <<config, harness, library, stream, tape, pc, result, steps, selection_cache, events, column,
                 retry, edm, select_calls, step_items, wrapper_calls>>

\* lines 730-758: pop an item whose parent was decided before
DequeueCached ==
  /\ pc = "loop" /\ queue # <<>>
  /\ LET item == Popping
         urls == EdgesGet(ontology_dag, item.parent_url)
     IN  /\ ~Cutoff(urls, item.level)
         /\ CandidateNames(ontology_dag, urls) # <<>>
         /\ IsMemoized(selection_cache, item.parent_url)
         /\ cur' = item
         /\ children_urls' = urls
         /\ candidates' = CandidateNames(ontology_dag, urls)
         /\ result' = selection_cache[item.parent_url]
  /\ queue' = PopLeft(queue)
  /\ pc' = "step"
  /\ UNCHANGED <<config, harness, library, stream, tape, steps, final_paths, selection_cache, events, column,
                 retry, edm, select_calls, step_items, wrapper_calls>>

\* lines 730-755: pop an item whose parent is not yet decided
PopUndecided ==
  /\ pc = "loop" /\ queue # <<>>
  /\ LET item == Popping
         urls == EdgesGet(ontology_dag, item.parent_url)
     IN  /\ ~Cutoff(urls, item.level)
         /\ CandidateNames(ontology_dag, urls) # <<>>
         /\ ~IsMemoized(selection_cache, item.parent_url)
         /\ cur' = item
         /\ children_urls' = urls
         /\ candidates' = CandidateNames(ontology_dag, urls)
         /\ select_calls' = Append(select_calls, item.parent_url)
  /\ queue' = PopLeft(queue)

\* lines 271-279, 403-411, 166-174: _call_llm_with_retry is entered with the
\* classes as data["current_level_ontology_classes"], up to the first attempt
EnterWrapper(agent_id, classes) ==
  /\ pc' = "select"
  /\ attempt' = 0
  /\ sleeps' = <<>>
  /\ wrapper' = "running"
  /\ wrapper_calls' = Append(wrapper_calls,
                             [agent_id |-> agent_id, classes |-> classes])

\* lines 756-765, 268-279, 166-174: enter selector.select in the single
\* strategy, up to the first oracle attempt
DequeueSelect ==
  /\ mode = "single"
  /\ PopUndecided
  /\ EnterWrapper(0, candidates')
  /\ UNCHANGED <<config, harness, library, stream, tape, result, steps, final_paths, selection_cache, events,
                 column, edm, step_items>>

\* what the run draws from outside: an outcome of the oracle (lines 177,
\* 226) or a random choice (line 625).  A recorded run keeps it on the tape;
\* a run that replays a tape draws what the tape says
Draw(kind, value) ==
  CASE phase = "off" -> tape' = tape
    [] phase = "record" -> tape' = Append(tape, [kind |-> kind, value |-> value])
    [] phase = "replay" -> /\ tape # <<>>
                           /\ Head(tape).kind = kind
                           /\ Head(tape).value = value
                           /\ tape' = Tail(tape)

\* lines 363-389 (492-518): select_edm up to the loop over the agents
EnterEdm(cands) ==
  /\ \E assignments \in Assignments(cands, edm_options) :
       /\ edm' = [agents_assignments |-> assignments, agent_id |-> 1,
                  agent_results |-> <<>>, votes_per_class |-> <<>>,
                  failed_agents |-> 0]
       /\ Draw("assign", assignments)
  /\ pc' = "agent"

\* lines 756-765, 360-389: enter selector.select in the ensemble strategy,
\* up to the loop over the agents
DequeueSelectEdm ==
  /\ mode = "edm"
  /\ PopUndecided
  /\ EnterEdm(candidates')
  /\ UNCHANGED <<config, harness, library, stream, result, steps, final_paths, selection_cache, events,
                 column, retry, step_items, wrapper_calls>>

\* lines 268-269, 360-361: SelectionResult(selected=[], status="completed")
NoCandidates == Result(<<>>, "completed", None, NoneOpt, NoneOpt)

\* lines 645-647, 268-279: selector.select in the single strategy, called
\* outside a column run
SelectSingle ==
  /\ pc = "call" /\ mode = "single"
  /\ IF candidates = <<>>
     THEN /\ result' = NoCandidates
          /\ pc' = "returned"
          /\ UNCHANGED <<retry, wrapper_calls>>
     ELSE /\ EnterWrapper(0, candidates)
          /\ UNCHANGED result
  /\ UNCHANGED <<config, harness, library, stream, tape, queue, cur, children_urls, candidates, steps,
                 final_paths, selection_cache, events, column, edm,
                 select_calls, step_items>>

\* lines 640-643, 360-389: selector.select in the ensemble strategy, called
\* outside a column run
SelectEdm ==
  /\ pc = "call" /\ mode = "edm"
  /\ IF candidates = <<>>
     THEN /\ result' = NoCandidates
          /\ pc' = "returned"
          /\ UNCHANGED <<edm, tape>>
     ELSE /\ EnterEdm(candidates)
          /\ UNCHANGED result
  /\ UNCHANGED <<config, harness, library, stream, queue, cur, children_urls, candidates, steps,
                 final_paths, selection_cache, events, column, retry,
                 select_calls, step_items, wrapper_calls>>

\* variant of AgentClasses: every agent is shown all the candidates
AgentClassesAll == candidates

\* the classes of the agent the loop is at
AgentClasses == edm.agents_assignments[edm.agent_id]

\* lines 391-409, 166-174: the next agent, up to its first oracle attempt; an
\* agent with nothing assigned is recorded without a call
AgentStart ==
  /\ pc = "agent" /\ edm.agent_id <= Len(edm.agents_assignments)
  /\ IF AgentClasses = <<>>
     THEN /\ edm' = [edm EXCEPT
                       !.agent_results = Append(@, AgentIdle(edm.agent_id)),
                       !.agent_id = @ + 1]
          /\ UNCHANGED <<pc, retry, wrapper_calls>>
     ELSE /\ EnterWrapper(edm.agent_id, AgentClasses)
          /\ UNCHANGED edm
  /\ UNCHANGED <<config, harness, library, stream, tape, queue, cur, children_urls, candidates, result, steps,
                 final_paths, selection_cache, events, column, select_calls,
                 step_items>>

\* selection_cache[parent_url] = result
Memoize(cache, url, res) ==
  [u \in DOMAIN cache \cup {url} |-> IF u = url THEN res ELSE cache[u]]

\* selector.select returned res: execute_column memoizes it (line 765)
Selected(res) ==
  /\ result' = res
  /\ IF InColumnRun
     THEN /\ selection_cache' = Memoize(selection_cache, cur.parent_url, res)
          /\ pc' = "step"
     ELSE /\ UNCHANGED selection_cache
          /\ pc' = "returned"

\* lines 411-431: the wrapper call of the current agent is over
AgentDone(agent_result) ==
  /\ edm' = [edm EXCEPT
               !.agent_results = Append(@, agent_result),
               !.votes_per_class = AddVotes(@, agent_result.voted_classes),
               !.failed_agents = IF agent_result.status = "failed"
                                 THEN @ + 1 ELSE @,
               !.agent_id = @ + 1]
  /\ pc' = "agent"
  /\ UNCHANGED <<result, selection_cache>>

\* the caller of the retry wrapper goes on with (request, response)
WrapperReturned(response) ==
  IF mode = "single"
  THEN Selected(SelectSingleReturn(candidates, response)) /\ UNCHANGED edm
  ELSE AgentDone(AgentVoted(edm.agent_id, AgentClasses, response))

\* the caller of the retry wrapper catches the exception e
WrapperRaised(e) ==
  IF mode = "single"
  THEN Selected(SelectSingleRaised(e)) /\ UNCHANGED edm
  ELSE AgentDone(AgentFailed(edm.agent_id, AgentClasses, e))

\* the answers of the oracle in the runs whose draws are recorded: none of
\* the names shown, all of them, the last one, or a name that was not shown
TapedAnswers(shown) ==
  {<<>>, Join(shown), Join(<<shown[Len(shown)]>>), <<Hallucinated>>}

\* the answers of the oracle while two runs are going on: none of the names
\* shown, all of them, or the last one
InterleavedAnswers(shown) ==
  {<<>>, Join(shown), Join(<<shown[Len(shown)]>>)}

\* the answers the oracle may give to the current call
OracleAnswers ==
  IF other # NoneOpt THEN InterleavedAnswers(candidates)
  ELSE IF phase # "off"
  THEN IF mode = "single" THEN TapedAnswers(candidates)
       ELSE AgentAnswers(AgentClasses)
  ELSE IF InColumnRun
  THEN IF mode = "single" THEN Answers(candidates)
       ELSE AgentAnswers(AgentClasses)
  ELSE IF mode = "single" THEN CallAnswers(candidates, candidates)
       ELSE CallAnswers(AgentClasses, candidates)

\* lines 175-195: an attempt returns an answer
AttemptReturns ==
  /\ pc = "select" /\ wrapper = "running" /\ attempt < max_retries
  /\ \E answer \in OracleAnswers :
       /\ WrapperReturned(Response(answer))
       /\ Draw("answer", answer)
  /\ wrapper' = "returned"
  /\ UNCHANGED <<config, harness, library, stream, queue, cur, children_urls, candidates, steps,
                 final_paths, events, column, attempt, sleeps, select_calls,
                 step_items, wrapper_calls>>

\* lines 197-201: an attempt raises and another one follows
AttemptRaisesRetry ==
  /\ pc = "select" /\ wrapper = "running"
  /\ attempt + 1 < max_retries
  /\ sleeps' = IF SleepsAfter(attempt) THEN Append(sleeps, Backoff(attempt))
               ELSE sleeps
  /\ attempt' = attempt + 1
  /\ Draw("raise", <<>>)
  /\ UNCHANGED <<config, harness, library, stream, pc, queue, cur, children_urls, candidates, result,
                 steps, final_paths, selection_cache, events, column, wrapper,
                 edm, select_calls, step_items, wrapper_calls>>

\* lines 197-209: the last attempt raises
AttemptRaisesLast ==
  /\ pc = "select" /\ wrapper = "running"
  /\ attempt < max_retries /\ ~(attempt + 1 < max_retries)
  /\ sleeps' = IF SleepsAfter(attempt) THEN Append(sleeps, Backoff(attempt))
               ELSE sleeps
  /\ attempt' = attempt + 1
  /\ wrapper' = "exhausted"
  /\ WrapperReturned(ExhaustedResponse)
  /\ Draw("raise", <<>>)
  /\ UNCHANGED <<config, harness, library, stream, queue, cur, children_urls, candidates, steps,
                 final_paths, events, column, select_calls, step_items,
                 wrapper_calls>>

\* lines 166-171, 299-304, 426-429: an exception raised outside the guarded
\* attempts (building the prompt) leaves the wrapper
WrapperRaises ==
  /\ pc = "select" /\ wrapper = "running" /\ attempt = 0
  /\ wrapper' = "raised"
  /\ WrapperRaised(EscapedError)
  /\ Draw("escape", <<>>)
  /\ UNCHANGED <<config, harness, library, stream, queue, cur, children_urls, candidates, steps,
                 final_paths, events, column, attempt, sleeps, select_calls,
                 step_items, wrapper_calls>>

\* lines 433-479: every agent was asked
EdmFinish ==
  /\ pc = "agent" /\ edm.agent_id > Len(edm.agents_assignments)
  /\ Selected(SelectEdmReturn(candidates, edm.agents_assignments,
                              edm.agent_results, edm.votes_per_class,
                              edm.failed_agents, edm_options))
  /\ UNCHANGED <<config, harness, library, stream, tape, queue, cur, children_urls, candidates, steps,
                 final_paths, events, column, retry, edm, select_calls,
                 step_items, wrapper_calls>>

\* variant of Step: the error text of the outcome is left out
StepNoError(level, parent, cands, res) ==
  [level |-> level, parent |-> parent, candidates |-> cands,
   selected |-> res.selected, status |-> res.status, error |-> None,
   llm_request |-> res.llm_request, llm_response |-> res.llm_response,
   edm_result |-> res.edm_result]

\* BFSStepDetail(...)
Step(level, parent, cands, res) ==
  [level |-> level, parent |-> parent, candidates |-> cands,
   selected |-> res.selected, status |-> res.status, error |-> res.error,
   llm_request |-> res.llm_request, llm_response |-> res.llm_response,
   edm_result |-> res.edm_result]

\* lines 768-780: steps.append(step); the locals of the selector are gone
AppendStep ==
  /\ pc = "step"
  /\ steps' = Append(steps, Step(cur.level, ParentName(ontology_dag, cur.parent_url),
                                 candidates, result))
  /\ step_items' = Append(step_items, cur)
  /\ pc' = "emit"
  /\ attempt' = 0
  /\ sleeps' = <<>>
  /\ wrapper' = "idle"
  /\ edm' = NoEdm
  /\ wrapper_calls' = <<>>
  /\ UNCHANGED <<config, harness, library, stream, tape, queue, cur, children_urls, candidates, result,
                 final_paths, selection_cache, events, column, select_calls>>

\* the dict d with d[key] = value when the optional value is set
WithKey(d, key, opt) == IF opt # NoneOpt THEN d @@ (key :> opt[1]) ELSE d

\* _step_to_dict: the six plain fields, and a key for each optional part
\* that is set
StepToDict(step) ==
  WithKey(WithKey(WithKey(
    ("level" :> step.level @@ "parent" :> step.parent
     @@ "candidates" :> step.candidates @@ "selected" :> step.selected
     @@ "status" :> step.status @@ "error" :> step.error),
    "llm_request", step.llm_request),
    "llm_response", step.llm_response),
    "edm_result", step.edm_result)

\* variant of EmitEvent: the sink is never called
EmitEventNever(sink, type, data) == sink

\* _emit_event: if self.sse_callback: self.sse_callback(event_type, data)
EmitEvent(sink, type, data) ==
  IF sse_callback THEN Append(sink, [type |-> type, data |-> data]) ELSE sink

\* variant of EmitEventAsync: the sink of the blocking form is used
EmitEventAsyncSync(sink, type, data) ==
  IF sse_callback THEN Append(sink, [type |-> type, data |-> data]) ELSE sink

\* _emit_event_async: if self.async_sse_callback: await
\* self.async_sse_callback(event_type, data)
EmitEventAsync(sink, type, data) ==
  IF async_sse_callback THEN Append(sink, [type |-> type, data |-> data])
  ELSE sink

\* lines 782-792 (911-921)
EmitStep ==
  /\ pc = "emit"
  /\ LET data == [column_name |-> me,
                  step |-> StepToDict(steps[Len(steps)]),
                  current_path |-> cur.path,
                  status |-> "in_progress"]
     IN  events' = IF form = "blocking" THEN EmitEvent(events, "step", data)
                   ELSE EmitEventAsync(events, "step", data)
  /\ pc' = "handle"
  /\ UNCHANGED <<config, harness, library, stream, tape, queue, cur, children_urls, candidates, result, steps,
                 final_paths, selection_cache, column, retry, edm,
                 select_calls, step_items, wrapper_calls>>

\* variant of NextLevel: a child keeps the level of its parent
NextLevelSame(level) == level

\* level + 1
NextLevel(level) == level + 1

\* variant of Enqueued: only the first accepted name gets an item
EnqueuedFirst(selected, i) ==
  IF i > 1 \/ selected = <<>> THEN <<>>
  ELSE <<Item(NextLevel(cur.level),
              SelectedUrl(ontology_dag, children_urls, selected[1]),
              Append(cur.path, selected[1]), Len(steps), 1)>>

\* lines 806-818: the items appended for the accepted names from position i on
RECURSIVE Enqueued(_, _)
Enqueued(selected, i) ==
  IF i > Len(selected) THEN <<>>
  ELSE LET selected_url == SelectedUrl(ontology_dag, children_urls, selected[i])
       IN  (IF selected_url # None
            THEN <<Item(NextLevel(cur.level), selected_url,
                        Append(cur.path, selected[i]), Len(steps), i)>>
            ELSE <<>>) \o Enqueued(selected, i + 1)

\* variant of IsFailed: a failed outcome is handled like any other
IsFailedNever(res) == FALSE

\* result.status == "failed"
IsFailed(res) == res.status = "failed"

\* variant of TerminatedPath: the marker is left out
TerminatedPathBare(path) == path

\* current_path + ["[terminated]"]
TerminatedPath(path) == Append(path, Terminated)

\* variant of Extend: the new items go to the front of the queue
ExtendLeft(q, items) == items \o q

\* queue.append(...) for every item, in order
Extend(q, items) == q \o items

\* lines 794-798
HandleFailed ==
  /\ pc = "handle" /\ IsFailed(result)
  /\ final_paths' = Append(final_paths, TerminatedPath(cur.path))
  /\ pc' = "loop"
  /\ UNCHANGED <<config, harness, library, stream, tape, queue, cur, children_urls, candidates, result, steps,
                 selection_cache, events, column, retry, edm, select_calls,
                 step_items, wrapper_calls>>

\* lines 800-804
HandleNoSelection ==
  /\ pc = "handle" /\ ~IsFailed(result) /\ result.selected = <<>>
  /\ final_paths' = AppendIfPath(final_paths, cur.path)
  /\ pc' = "loop"
  /\ UNCHANGED <<config, harness, library, stream, tape, queue, cur, children_urls, candidates, result, steps,
                 selection_cache, events, column, retry, edm, select_calls,
                 step_items, wrapper_calls>>

\* lines 806-818. The guard on the path bounds the model: a path has as many
\* names as its item's level, which stays below max_depth <= MaxDepthBound
HandleSelection ==
  /\ pc = "handle" /\ ~IsFailed(result) /\ result.selected # <<>>
  /\ Len(cur.path) <= MaxDepthBound
  /\ queue' = Extend(queue, Enqueued(result.selected, 1))
  /\ pc' = "loop"
  /\ UNCHANGED <<config, harness, library, stream, tape, cur, children_urls, candidates, result, steps,
                 final_paths, selection_cache, events, column, retry, edm,
                 select_calls, step_items, wrapper_calls>>

\* variant of ColumnStatus: one failed step fails the column
ColumnStatusAnyFailed(log) ==
  IF \E i \in 1..Len(log) : log[i].status = "failed" THEN "failed"
  ELSE "completed"

\* lines 824-831
ColumnStatus(log) ==
  IF \A i \in 1..Len(log) : log[i].status = "failed" THEN "failed"
  ELSE IF \E i \in 1..Len(log) : log[i].status = "failed" THEN "partial"
  ELSE "completed"

\* lines 827-829
ColumnError(log) ==
  IF \A i \in 1..Len(log) : log[i].status = "failed" THEN AllStepsFailed
  ELSE None

\* variant of OrEmptyPath: an empty list of paths is returned as it is
OrEmptyPathKeep(paths) == paths

\* lines 820-822
OrEmptyPath(paths) == IF paths = <<>> THEN << <<>> >> ELSE paths

\* lines 820-839: the queue is empty; build the ColumnResultDetail
Finish ==
  /\ pc = "loop" /\ queue = <<>>
  /\ final_paths' = OrEmptyPath(final_paths)
  /\ status' = ColumnStatus(steps)
  /\ error' = ColumnError(steps)
  /\ pc' = "done"
  /\ UNCHANGED <<config, harness, library, stream, tape, queue, cur, children_urls, candidates, result, steps,
                 selection_cache, events, retry, edm, select_calls, step_items,
                 wrapper_calls>>

Next ==
  \/ DequeueTerminal
  \/ DequeueCached
  \/ DequeueSelect
  \/ DequeueSelectEdm
  \/ AgentStart
  \/ AttemptReturns
  \/ AttemptRaisesRetry
  \/ AttemptRaisesLast
  \/ WrapperRaises
  \/ EdmFinish
  \/ AppendStep
  \/ EmitStep
  \/ HandleFailed
  \/ HandleNoSelection
  \/ HandleSelection
  \/ Finish

Spec == Init /\ [][Next]_vars

\* the graphs, depths and options of the runs made in both forms
FormGraphs == {GTree, GDiamond}

\* execute_column is about to run and its draws are recorded; afterwards
\* execute_column_async runs on the same executor with the same draws
FormsInit ==
  /\ mode \in {"single", "edm"}
  /\ ontology_dag \in IF mode = "edm" THEN {GTree} ELSE FormGraphs
  /\ max_depth \in {MaxDepthBound - 1, MaxDepthBound}
  /\ sse_callback \in BOOLEAN
  /\ async_sse_callback \in BOOLEAN
  /\ form = "blocking"
  /\ edm_options = IF mode = "edm" THEN HalfOptions ELSE DefaultEdmOptions
  /\ pc = "loop"
  /\ queue = <<Item(0, ontology_dag.root, <<>>, 0, 0)>>
  /\ cur = NoItem
  /\ children_urls = <<>>
  /\ candidates = <<>>
  /\ result = NoResult
  /\ steps = <<>>
  /\ final_paths = <<>>
  /\ selection_cache = <<>>
  /\ events = <<>>
  /\ status = "in_progress"
  /\ error = None
  /\ attempt = 0
  /\ sleeps = <<>>
  /\ wrapper = "idle"
  /\ edm = NoEdm
  /\ select_calls = <<>>
  /\ step_items = <<>>
  /\ wrapper_calls = <<>>
  /\ tape = <<>>
  /\ phase = "record"
  /\ first = <<>>
  /\ other = NoneOpt
  /\ me = 1
  /\ NoLibraryCall
  /\ NoStream

\* lines 852-857: the locals of a column run that starts
StartRun ==
  /\ pc' = "loop"
  /\ queue' = <<Item(0, ontology_dag.root, <<>>, 0, 0)>>
  /\ cur' = NoItem
  /\ children_urls' = <<>>
  /\ candidates' = <<>>
  /\ result' = NoResult
  /\ steps' = <<>>
  /\ final_paths' = <<>>
  /\ selection_cache' = <<>>
  /\ status' = "in_progress"
  /\ error' = None
  /\ select_calls' = <<>>
  /\ step_items' = <<>>

\* the ColumnResultDetail of the run and what its sink received
Outcome ==
  [steps |-> steps, final_paths |-> final_paths, status |-> status,
   error |-> error, events |-> events]

\* lines 852-857: execute_column_async is called on the executor the blocking
\* run used, with a sink that has received nothing; it draws from the tape
ExecuteColumnAsync ==
  /\ pc = "done" /\ phase = "record" /\ other = NoneOpt
  /\ first' = Append(first, Outcome)
  /\ phase' = "replay"
  /\ form' = "suspension"
  /\ StartRun
  /\ events' = <<>>
  /\ UNCHANGED <<ontology_dag, max_depth, sse_callback, async_sse_callback,
                 mode, edm_options, retry, edm, wrapper_calls, tape, other, me,
                 library, stream>>

FormsNext == Next \/ ExecuteColumnAsync

FormsSpec == FormsInit /\ [][FormsNext]_vars

\* the locals of a column run (lines 852-860) and of the selector functions
\* it is in, with the run's result and its history
Frame ==
  [pc |-> pc, queue |-> queue, cur |-> cur, children_urls |-> children_urls,
   candidates |-> candidates, result |-> result, steps |-> steps,
   final_paths |-> final_paths, selection_cache |-> selection_cache,
   status |-> status, error |-> error, attempt |-> attempt, sleeps |-> sleeps,
   wrapper |-> wrapper, edm |-> edm, select_calls |-> select_calls,
   step_items |-> step_items, wrapper_calls |-> wrapper_calls, tape |-> tape]

\* a column run that was called and has not yet run
NotStarted ==
  [pc |-> "loop", queue |-> <<Item(0, ontology_dag.root, <<>>, 0, 0)>>,
   cur |-> NoItem, children_urls |-> <<>>, candidates |-> <<>>,
   result |-> NoResult, steps |-> <<>>, final_paths |-> <<>>,
   selection_cache |-> <<>>, status |-> "in_progress", error |-> None,
   attempt |-> 0, sleeps |-> <<>>, wrapper |-> "idle", edm |-> NoEdm,
   select_calls |-> <<>>, step_items |-> <<>>, wrapper_calls |-> <<>>,
   tape |-> <<>>]

\* variant of ResumedCache: the table is the one the run that ran last left
ResumedCacheShared(f) == selection_cache

\* the memoization table of a run that is resumed: its own local (line 854)
ResumedCache(f) == f.selection_cache

\* the run with the frame f goes on
Resume(f) ==
  /\ pc' = f.pc
  /\ queue' = f.queue
  /\ cur' = f.cur
  /\ children_urls' = f.children_urls
  /\ candidates' = f.candidates
  /\ result' = f.result
  /\ steps' = f.steps
  /\ final_paths' = f.final_paths
  /\ selection_cache' = ResumedCache(f)
  /\ status' = f.status
  /\ error' = f.error
  /\ attempt' = f.attempt
  /\ sleeps' = f.sleeps
  /\ wrapper' = f.wrapper
  /\ edm' = f.edm
  /\ select_calls' = f.select_calls
  /\ step_items' = f.step_items
  /\ wrapper_calls' = f.wrapper_calls
  /\ tape' = f.tape

\* the awaits of execute_column_async: an oracle call or a sleep of the retry
\* wrapper (lines 226, 250) and the call of the registered sink (line 710)
AtSuspensionPoint ==
  \/ pc = "select" /\ wrapper = "running"
  \/ pc = "emit" /\ async_sse_callback

\* the running column run is suspended at an await, or has ended, and the
\* event loop goes on with the other one
Switch ==
  /\ other # NoneOpt /\ other[1].pc # "done"
  /\ AtSuspensionPoint \/ pc = "done"
  /\ other' = Some(Frame)
  /\ Resume(other[1])
  /\ me' = 3 - me
  /\ UNCHANGED <<config, events, phase, first, library, stream>>

\* two calls of execute_column_async on one executor and one graph; the
\* first is about to run, the second has not yet run
InterleavedInit ==
  /\ mode = "single"
  /\ ontology_dag = GDiamond
  /\ max_depth = MaxDepthBound
  /\ sse_callback = FALSE
  /\ async_sse_callback = TRUE
  /\ form = "suspension"
  /\ edm_options = DefaultEdmOptions
  /\ pc = "loop"
  /\ queue = <<Item(0, ontology_dag.root, <<>>, 0, 0)>>
  /\ cur = NoItem
  /\ children_urls = <<>>
  /\ candidates = <<>>
  /\ result = NoResult
  /\ steps = <<>>
  /\ final_paths = <<>>
  /\ selection_cache = <<>>
  /\ status = "in_progress"
  /\ error = None
  /\ attempt = 0
  /\ sleeps = <<>>
  /\ wrapper = "idle"
  /\ edm = NoEdm
  /\ select_calls = <<>>
  /\ step_items = <<>>
  /\ wrapper_calls = <<>>
  /\ tape = <<>>
  /\ events = <<>>
  /\ phase = "record"
  /\ first = <<>>
  /\ other = Some(NotStarted)
  /\ me = 1
  /\ NoLibraryCall
  /\ NoStream

\* what is kept of a run to compare it with the run made alone
Kept(f) ==
  [steps |-> f.steps, final_paths |-> f.final_paths, status |-> f.status,
   tape |-> f.tape, events |-> events]

\* both runs have ended: a run on its own is given the draws of the first
RunFirstAlone ==
  /\ pc = "done" /\ phase = "record"
  /\ other # NoneOpt /\ other[1].pc = "done"
  /\ first' = IF me = 1 THEN <<Kept(Frame), Kept(other[1])>>
               ELSE <<Kept(other[1]), Kept(Frame)>>
  /\ phase' = "replay"
  /\ other' = NoneOpt
  /\ me' = 1
  /\ StartRun
  /\ tape' = first'[1].tape
  /\ events' = <<>>
  /\ UNCHANGED <<config, retry, edm, wrapper_calls, library, stream>>

\* a run on its own is given the draws of the second
RunSecondAlone ==
  /\ pc = "done" /\ phase = "replay" /\ Len(first) = 2 /\ me = 1
  /\ me' = 2
  /\ StartRun
  /\ tape' = first[2].tape
  /\ events' = <<>>
  /\ UNCHANGED <<config, retry, edm, wrapper_calls, phase, first, other,
                 library, stream>>

InterleavedNext ==
  \/ DequeueTerminal
  \/ DequeueCached
  \/ DequeueSelect
  \/ AttemptReturns
  \/ WrapperRaises
  \/ AppendStep
  \/ EmitStep
  \/ HandleFailed
  \/ HandleNoSelection
  \/ HandleSelection
  \/ Finish
  \/ Switch
  \/ RunFirstAlone
  \/ RunSecondAlone

InterleavedSpec == InterleavedInit /\ [][InterleavedNext]_vars

\* ------------------------------------------- the run and its event stream
\* emit_sse_event: the message of an event; it is put in every queue that is
\* registered for the run
Message(type, data) == [type |-> type, data |-> data]

\* the keys of the JSON text of data: those of the dict and of the step
\* dict in it
KeysOf(data) ==
  DOMAIN data \cup (IF "step" \in DOMAIN data THEN DOMAIN data.step ELSE {})

\* word in message, for the two words stream_run looks for: the text
\* "event: <type>\ndata: <json>" holds the word when it is the event type
\* or a key of the JSON text
Mentions(message, word) ==
  message.type = word \/ word \in KeysOf(message.data)

\* runs.py line 724: the message ends the stream
EndsStream(message) ==
  Mentions(message, "run_complete") \/ Mentions(message, "error")

\* run_data["status"] in the run file, as load_run gives it
SavedStatus ==
  CASE run_pc = "created" -> "pending"
    [] run_pc \in {"running", "column", "columns_done"} -> "running"
    [] run_pc \in {"saved", "completed"} -> "completed"
    [] run_pc = "failed" -> "failed"
    [] OTHER -> "unknown"

\* the queue of the client: the messages put since it was registered that
\* it has not taken; the first message it received is not from the queue
ClientQueue ==
  SubSeq(events, client.joined + Len(client.received), Len(events))

\* a run was created and execute_run_background was scheduled for one
\* column; the executor has the sink of runs.py lines 260-261
StreamInit ==
  /\ mode = "single"
  /\ ontology_dag = GTree
  /\ max_depth = MaxDepthBound - 1
  /\ sse_callback = FALSE
  /\ async_sse_callback = TRUE
  /\ form = "suspension"
  /\ edm_options = DefaultEdmOptions
  /\ pc = "done"
  /\ queue = <<>>
  /\ cur = NoItem
  /\ children_urls = <<>>
  /\ candidates = <<>>
  /\ result = NoResult
  /\ steps = <<>>
  /\ final_paths = <<>>
  /\ selection_cache = <<>>
  /\ status = "in_progress"
  /\ error = None
  /\ attempt = 0
  /\ sleeps = <<>>
  /\ wrapper = "idle"
  /\ edm = NoEdm
  /\ select_calls = <<>>
  /\ step_items = <<>>
  /\ wrapper_calls = <<>>
  /\ tape = <<>>
  /\ events = <<>>
  /\ phase = "off"
  /\ first = <<>>
  /\ other = NoneOpt
  /\ me = 1
  /\ NoLibraryCall
  /\ run_pc = "created"
  /\ client = NoClient

\* what the run leaves alone outside a column run
runIdle == <<config, pc, queue, cur, children_urls, candidates, result, steps,
             final_paths, selection_cache, column, retry, edm, select_calls,
             step_items, wrapper_calls, tape, harness, library>>

\* runs.py lines 217-224
RunStart ==
  /\ run_pc = "created"
  /\ events' = Append(events, Message("run_start",
                                      [run_id |-> 1, status |-> "running"]))
  /\ run_pc' = "running"
  /\ UNCHANGED <<runIdle, client>>

\* runs.py lines 226-235 and 363-376: the table or the ontology is not
\* found
RunRaises ==
  /\ run_pc = "running"
  /\ events' = Append(events, Message("error",
                                      [run_id |-> 1, error |-> "not found",
                                       recoverable |-> FALSE]))
  /\ run_pc' = "failed"
  /\ UNCHANGED <<runIdle, client>>

\* runs.py lines 271-292: column_start, and execute_column_async is called
ColumnStart ==
  /\ run_pc = "running"
  /\ events' = Append(events, Message("column_start",
                                      [run_id |-> 1, column_name |-> me,
                                       column_index |-> 0,
                                       total_columns |-> 1]))
  /\ StartRun
  /\ run_pc' = "column"
  /\ UNCHANGED <<config, retry, edm, wrapper_calls, tape, harness, library,
                 client>>

\* runs.py lines 294-331: the column run has returned
ColumnComplete ==
  /\ run_pc = "column" /\ pc = "done"
  /\ events' = Append(events, Message("column_complete",
                                      [run_id |-> 1, column_name |-> me,
                                       final_paths |-> final_paths,
                                       status |-> status]))
  /\ run_pc' = "columns_done"
  /\ UNCHANGED <<runIdle, client>>

\* runs.py lines 333-351: the final status is saved
SaveFinal ==
  /\ run_pc = "columns_done"
  /\ run_pc' = "saved"
  /\ UNCHANGED <<runIdle, events, client>>

\* runs.py lines 353-361
RunComplete ==
  /\ run_pc = "saved"
  /\ events' = Append(events, Message("run_complete",
                                      [run_id |-> 1, status |-> status]))
  /\ run_pc' = "completed"
  /\ UNCHANGED <<runIdle, client>>

\* stream_run lines 688-702: the queue of the request is registered
Connect ==
  /\ client.pc = "absent"
  /\ client' = [pc |-> "registered", joined |-> Len(events),
                 received |-> <<>>]
  /\ UNCHANGED <<runIdle, events, run_pc>>

\* stream_run lines 706-716: the connected message, and the final state of
\* a run that has ended
Hello ==
  /\ client.pc = "registered"
  /\ client' =
       IF SavedStatus \in {"completed", "failed", "partial"}
       THEN [client EXCEPT
               !.pc = "returned",
               !.received = <<Message("connected", [run_id |-> 1]),
                              Message("run_complete",
                                      [run_id |-> 1,
                                       status |-> SavedStatus])>>]
       ELSE [client EXCEPT
               !.pc = "waiting",
               !.received = <<Message("connected", [run_id |-> 1])>>]
  /\ UNCHANGED <<runIdle, events, run_pc>>

\* stream_run lines 719-727 and 733-738: a message is taken from the queue
\* and yielded; the loop ends when the message holds one of the two words
Receive ==
  /\ client.pc = "waiting"
  /\ ClientQueue # <<>>
  /\ client' = [client EXCEPT
                  !.received = Append(@, Head(ClientQueue)),
                  !.pc = IF EndsStream(Head(ClientQueue)) THEN "closed"
                         ELSE "waiting"]
  /\ UNCHANGED <<runIdle, events, run_pc>>

StreamNext ==
  \/ RunStart
  \/ RunRaises
  \/ ColumnStart
  \/ DequeueTerminal
  \/ DequeueCached
  \/ DequeueSelect
  \/ AttemptReturns
  \/ AttemptRaisesRetry
  \/ AttemptRaisesLast
  \/ WrapperRaises
  \/ AppendStep
  \/ EmitStep
  \/ HandleFailed
  \/ HandleNoSelection
  \/ HandleSelection
  \/ Finish
  \/ ColumnComplete
  \/ SaveFinal
  \/ RunComplete
  \/ Connect
  \/ Hello
  \/ Receive

StreamSpec == StreamInit /\ [][StreamNext]_vars

\* one call of DetailedSelector.select
CallNext ==
  \/ SelectSingle
  \/ SelectEdm
  \/ AgentStart
  \/ AttemptReturns
  \/ AttemptRaisesRetry
  \/ AttemptRaisesLast
  \/ WrapperRaises
  \/ EdmFinish

CallSpec == CallInit /\ [][CallNext]_vars

\* ------------------------------------- the graph and its cache, called
\* the iris of the classes of the ontology source, in the order of
\* onto.classes()
ClassUrls == <<"a", "b", "c">>

\* an iri that is no class and no parent
Unknown == "zz"

\* the largest max_depth a subtree is asked with
MaxSubtreeDepth == 2

\* cls.is_a of the class url: nothing, Thing, a restriction, a class of
\* another ontology, one class (url itself too), or two other classes
IsAOf(url) ==
  {<<>>, <<Thing>>, <<Restriction>>, <<External>>}
    \cup {<<p>> : p \in Range(ClassUrls)}
    \cup {pq \in (Range(ClassUrls) \ {url}) \X (Range(ClassUrls) \ {url}) :
            pq[1] # pq[2]}

\* onto.classes(): the first n classes, each with an is_a
OntoInputs ==
  UNION {{[i \in 1..n |-> [url |-> ClassUrls[i], is_a |-> parents[i]]] :
            parents \in {ps \in [1..n -> UNION {IsAOf(u) :
                                                  u \in Range(ClassUrls)}] :
                           \A i \in 1..n : ps[i] \in IsAOf(ClassUrls[i])}}
           : n \in 0..Len(ClassUrls)}

\* onto.classes() of the four classes a, b, c, d with the given is_a
FourClasses(parents) ==
  [i \in 1..4 |-> [url |-> (ClassUrls \o <<"d">>)[i], is_a |-> parents[i]]]

\* ontologies of four classes: a chain, a class with two parents of
\* different depths that has a subclass, the same under Thing, and the
\* same under two root candidates
DeepInputs ==
  {FourClasses(<< <<>>, <<"a">>, <<"b">>, <<"c">> >>),
   FourClasses(<< <<>>, <<"a">>, <<"a", "b">>, <<"c">> >>),
   FourClasses(<< <<Thing>>, <<"a">>, <<"a", "b">>, <<"c">> >>),
   FourClasses(<< <<>>, <<>>, <<"a", "b">>, <<"c">> >>)}

\* the urls the graph and the tree are asked about
AskedUrls == Range(ClassUrls) \cup {"d", Thing, External, Unknown}

\* everything of a column run
columnRun == <<max_depth, sse_callback, async_sse_callback, form, mode,
               edm_options, pc, queue, cur, children_urls, candidates, result,
               steps, final_paths, selection_cache, events, column, retry,
               edm, select_calls, step_items, wrapper_calls, tape, harness,
               stream>>

\* OntologyDAG() and the classes of the source, one of inputs; no column
\* run is going on
LibraryFrom(inputs) ==
  /\ onto_classes \in inputs
  /\ ontology_dag = GEmpty
  /\ cached = NoneOpt
  /\ returned = NoneOpt
  /\ cache_file = NoneOpt
  /\ mode = "single"
  /\ edm_options = DefaultEdmOptions
  /\ candidates = <<>>
  /\ max_depth = 0
  /\ sse_callback = FALSE
  /\ async_sse_callback = FALSE
  /\ form = "blocking"
  /\ pc = "done"
  /\ queue = <<>>
  /\ cur = NoItem
  /\ children_urls = <<>>
  /\ result = NoResult
  /\ steps = <<>>
  /\ final_paths = <<>>
  /\ selection_cache = <<>>
  /\ events = <<>>
  /\ status = "in_progress"
  /\ error = None
  /\ attempt = 0
  /\ sleeps = <<>>
  /\ wrapper = "idle"
  /\ edm = NoEdm
  /\ select_calls = <<>>
  /\ step_items = <<>>
  /\ wrapper_calls = <<>>
  /\ tape = <<>>
  /\ phase = "off"
  /\ first = <<>>
  /\ other = NoneOpt
  /\ me = 1
  /\ NoStream

LibraryInit == LibraryFrom(OntoInputs \cup DeepInputs)

\* dag.build_dag()
BuildDagCall ==
  /\ ontology_dag.root = None
  /\ ontology_dag' = BuildDag(onto_classes)
  /\ UNCHANGED <<columnRun, library>>

\* cache.build_from_dag(dag)
BuildFromDagCall ==
  /\ ontology_dag.root # None
  /\ cached = NoneOpt
  /\ cached' = Some(BuildFromDag(ontology_dag))
  /\ UNCHANGED <<columnRun, ontology_dag, onto_classes, cache_file, returned>>

\* dag.get_children(url)
GetChildrenCall ==
  /\ ontology_dag.root # None
  /\ \E url \in AskedUrls :
       /\ returned' = Some([call |-> "get_children", url |-> url,
                            value |-> GetOrEmpty(ontology_dag.edges, url)])
       /\ ontology_dag' = [ontology_dag EXCEPT
                             !.edges = AfterGet(ontology_dag.edges, url)]
  /\ UNCHANGED <<columnRun, onto_classes, cache_file, cached>>

\* tree.get_subtree(root_url, max_depth)
GetSubtreeCall ==
  /\ cached # NoneOpt
  /\ \E root_url \in AskedUrls \cup {None},
        limit \in {NoneOpt} \cup {Some(d) : d \in 0..MaxSubtreeDepth} :
       /\ returned' = Some([call |-> "get_subtree", url |-> root_url,
                            max_depth |-> limit,
                            value |-> GetSubtree(cached[1], root_url, limit),
                            shared |-> SharedLists(
                                         cached[1], limit,
                                         << <<StartUrl(cached[1], root_url),
                                              0>> >>, {}, {})])
       /\ cached' = Some(AfterSubtree(
                          cached[1],
                          GetSubtree(cached[1], root_url, limit).nodes))
  /\ UNCHANGED <<columnRun, ontology_dag, onto_classes, cache_file>>

LibraryNext ==
  \/ BuildDagCall
  \/ BuildFromDagCall
  \/ GetChildrenCall
  \/ GetSubtreeCall

LibrarySpec == LibraryInit /\ [][LibraryNext]_vars

\* ------------------------------- the caller changes what it was handed
\* some children list of the tree or of the subtree holds the id the
\* caller appends
Appended ==
  \/ \E url \in DOMAIN cached[1].nodes :
       Unknown \in Range(cached[1].nodes[url].children)
  \/ \E url \in DOMAIN returned[1].value.nodes :
       Unknown \in Range(returned[1].value.nodes[url].children)

\* list.append(Unknown) on the children list of the node url of the tree
\* built by build_from_dag: the list is the one of the graph's edges when
\* the graph has one for url (cache.py line 277)
AppendInTree(url) ==
  /\ cached' = Some([cached[1] EXCEPT
                       !.nodes[url].children = Append(@, Unknown)])
  /\ ontology_dag' =
       IF url \in DOMAIN ontology_dag.edges
       THEN [ontology_dag EXCEPT !.edges[url] = Append(@, Unknown)]
       ELSE ontology_dag

\* subtree.nodes[url].children.append(Unknown) by the caller of get_subtree
AppendToResult ==
  /\ returned # NoneOpt /\ returned[1].call = "get_subtree"
  /\ ~Appended
  /\ \E url \in DOMAIN returned[1].value.nodes :
       /\ returned' = Some([returned[1] EXCEPT
                             !.call = "result changed",
                             !.value.nodes[url].children
                               = Append(@, Unknown)])
       /\ IF url \in returned[1].shared THEN AppendInTree(url)
          ELSE UNCHANGED <<cached, ontology_dag>>
  /\ UNCHANGED <<columnRun, onto_classes, cache_file>>

\* tree.nodes[url].children.append(Unknown) by the caller of get_subtree
AppendToSource ==
  /\ returned # NoneOpt /\ returned[1].call = "get_subtree"
  /\ ~Appended
  /\ \E url \in DOMAIN cached[1].nodes :
       /\ AppendInTree(url)
       /\ returned' = Some([returned[1] EXCEPT
                             !.call = "source changed",
                             !.value.nodes =
                               IF url \in returned[1].shared
                               THEN [@ EXCEPT ![url].children
                                                = Append(@, Unknown)]
                               ELSE @])
  /\ UNCHANGED <<columnRun, onto_classes, cache_file>>

\* subtree.metadata["truncated"] = not subtree.metadata["truncated"] by the
\* caller of get_subtree: the dict is the one made at cache.py line 160
SetResultMetadata ==
  /\ returned # NoneOpt /\ returned[1].call = "get_subtree"
  /\ returned' = Some([returned[1] EXCEPT
                        !.call = "result changed",
                        !.value.metadata.truncated = ~@])
  /\ UNCHANGED <<columnRun, ontology_dag, onto_classes, cache_file, cached>>

AliasNext ==
  \/ LibraryNext
  \/ AppendToResult
  \/ AppendToSource
  \/ SetResultMetadata

\* the ontologies of at most two classes, and those of four
AliasInit ==
  LibraryFrom({cs \in OntoInputs : Len(cs) <= 2} \cup DeepInputs)

AliasSpec == AliasInit /\ [][AliasNext]_vars

\* ------------------------------------------- the cache file of a tree
\* cache.py lines 210-220: cache.save(ontology_id, tree) of the tree built
\* from the graph or of the result of get_subtree. The file holds the JSON
\* text of tree.to_dict(): every value of it is a string, an integer, a
\* boolean, None, a list of strings or a dict with string keys, which
\* json.load gives back as json.dump was given them
SaveCall ==
  /\ cached # NoneOpt
  /\ \E tree \in {cached[1]} \cup
                  (IF returned # NoneOpt /\ returned[1].call = "get_subtree"
                   THEN {returned[1].value} ELSE {}) :
       /\ cache_file' = Some(TreeToDict(tree))
       /\ returned' = Some([call |-> "save", value |-> tree])
  /\ UNCHANGED <<columnRun, ontology_dag, onto_classes, cached>>

\* cache.py lines 189-208: the cache.load(ontology_id) that follows a save;
\* the tree that was saved is kept beside the one that is loaded
LoadCall ==
  /\ cache_file # NoneOpt
  /\ returned # NoneOpt /\ returned[1].call = "save"
  /\ returned' = Some([call |-> "load", saved |-> returned[1].value,
                       value |-> TreeFromDict(cache_file[1])])
  /\ UNCHANGED <<columnRun, ontology_dag, onto_classes, cached, cache_file>>

SerialNext ==
  \/ LibraryNext
  \/ SaveCall
  \/ LoadCall

SerialSpec == AliasInit /\ [][SerialNext]_vars

\* the run is a sequential program: it takes its next step whenever it has one
FairSpec == Spec /\ WF_vars(Next)

TypeOK ==
  /\ pc \in {"loop", "select", "agent", "step", "emit", "handle", "done", "call",
            "returned"}
  /\ status \in {"in_progress", "completed", "failed", "partial"}
  /\ wrapper \in {"idle", "running", "returned", "exhausted", "raised"}

\* ------------------------------------------------------------ the claims
AllFailed(log) == \A i \in 1..Len(log) : log[i].status = "failed"
SomeFailed(log) == \E i \in 1..Len(log) : log[i].status = "failed"

\* the SelectionResult a step was built from
SameOutcome(step, res) ==
  /\ step.selected = res.selected
  /\ step.status = res.status
  /\ step.error = res.error
  /\ step.llm_request = res.llm_request
  /\ step.llm_response = res.llm_response
  /\ step.edm_result = res.edm_result

\* C1: within one column run the Decision Engine is invoked at most once per
\* parent id: no parent occurs twice among the selector.select calls, a call
\* is in flight only for a parent with no memoized result, and every step
\* carries the result memoized for its parent
C1_SelectOncePerParent ==
  /\ NoRepeat(select_calls)
  /\ pc \in {"select", "agent"} => cur.parent_url \notin DOMAIN selection_cache
  /\ DOMAIN selection_cache \subseteq Range(select_calls)
  /\ \A i \in 1..Len(steps) :
       /\ step_items[i].parent_url \in DOMAIN selection_cache
       /\ SameOutcome(steps[i], selection_cache[step_items[i].parent_url])

\* C1 witness: a parent reached through two different branches has two steps
\* and one selector.select call
C1_Witness ==
  \E i, j \in 1..Len(steps) :
    /\ i < j
    /\ step_items[i].parent_url = step_items[j].parent_url
    /\ step_items[i].src # step_items[j].src
    /\ Len(select_calls) < Len(steps)

\* C2: when a column run ends its status is failed if every recorded step
\* failed, partial if some but not all steps failed, completed otherwise, and
\* it is one of these three values
C2_StatusDerivation ==
  pc = "done" =>
    /\ status \in {"completed", "failed", "partial"}
    /\ status = "failed" <=> AllFailed(steps)
    /\ status = "partial" <=> (SomeFailed(steps) /\ ~AllFailed(steps))
    /\ status = "completed" <=> (~SomeFailed(steps) /\ ~AllFailed(steps))

\* C2 witness: a finished run with a failed step and a step that did not fail
C2_Witness ==
  /\ pc = "done" /\ status = "partial"
  /\ \E i, j \in 1..Len(steps) :
       steps[i].status = "failed" /\ steps[j].status = "completed"

\* C3: a column run that ends without any Decision Engine call (the root has
\* no children, is unknown, or max_depth is 0) is not failed and carries no
\* error text
C3_StructuralAbsenceNotFailed ==
  (pc = "done" /\ select_calls = <<>>) => (status # "failed" /\ error = None)

\* C4: handling a step whose outcome failed appends path_so_far +
\* ["[terminated]"] to the terminal paths, enqueues nothing, changes no step
\* and returns to the loop over the frontier; the run ends only with an empty
\* frontier
C4_FailedStepTerminatesBranch ==
  /\ [][(pc = "handle" /\ result.status = "failed") =>
          /\ final_paths' = Append(final_paths, Append(cur.path, Terminated))
          /\ queue' = queue
          /\ steps' = steps
          /\ pc' = "loop"]_vars
  /\ [](pc = "done" => queue = <<>>)

\* C4 witness: a failed step with a non-empty accepted list was handled:
\* its branch ends in "[terminated]", its accepted names are not in the
\* frontier, and another item is still to be processed
C4_Witness ==
  /\ pc = "loop" /\ steps # <<>> /\ queue # <<>>
  /\ steps[Len(steps)].status = "failed"
  /\ steps[Len(steps)].selected # <<>>
  /\ final_paths # <<>>
  /\ final_paths[Len(final_paths)] = Append(cur.path, Terminated)
  /\ \A k \in 1..Len(queue) : queue[k].src # Len(steps)

\* C5: the final_paths of a column result is never empty, and is exactly the
\* one empty path when the run collected no terminal path
C5_FinalPathsNonEmpty ==
  /\ [](pc = "done" => final_paths # <<>>)
  /\ [][(pc # "done" /\ pc' = "done" /\ final_paths = <<>>) =>
          final_paths' = << <<>> >>]_vars

\* C5 witness: a finished run whose result is the single empty path
C5_Witness == pc = "done" /\ final_paths = << <<>> >> /\ steps # <<>>

\* C6: if no frontier item other than the initial root item is ever
\* enqueued, the run's final_paths is the single empty path
C6_NoAcceptGivesEmptyPath ==
  (pc = "done" /\ Popped = 1) => final_paths = << <<>> >>

\* C6 as amended: if no frontier item other than the root item is ever
\* enqueued, final_paths is the single empty path, unless the root's step
\* failed: then it is the single path ["[terminated]"]
C6_Amended ==
  (pc = "done" /\ Popped = 1) =>
    final_paths = IF steps # <<>> /\ steps[1].status = "failed"
                  THEN << <<Terminated>> >>
                  ELSE << <<>> >>

\* C6 witness: the Decision Engine was asked about the root's children and
\* accepted none; the run ended with the single empty path
C6_Witness ==
  /\ pc = "done" /\ Popped = 1 /\ Len(steps) = 1
  /\ steps[1].status = "completed" /\ steps[1].selected = <<>>
  /\ steps[1].llm_response # NoneOpt
  /\ final_paths = << <<>> >>

\* C7: every column run terminates: the frontier empties and the result is built
C7_Terminates == <>(pc = "done" /\ queue = <<>>)

\* C7 witness: a run over the graph with a cycle that followed the cycle as
\* deep as max_depth allows has ended
C7_Witness ==
  /\ pc = "done" /\ queue = <<>>
  /\ ontology_dag = GCycle /\ max_depth = MaxDepthBound
  /\ \E i \in 1..Len(steps) : steps[i].level = max_depth - 1

\* the place of a step's parent among the children of the parent of the
\* step that enqueued it
ChildIndex(i) ==
  LET urls == EdgesGet(ontology_dag, step_items[step_items[i].src].parent_url)
  IN  CHOOSE k \in 1..Len(urls) :
        /\ urls[k] = step_items[i].parent_url
        /\ \A m \in 1..(k - 1) : urls[m] # step_items[i].parent_url

\* the step log follows the order of the pops and its levels never decrease
LogInPopOrder ==
  \A i, j \in 1..Len(steps) :
    i < j => /\ step_items[i].ord < step_items[j].ord
             /\ steps[i].level <= steps[j].level

\* the history fields of the item of a step name the step that enqueued it
\* and the accepted name it was enqueued for
EnqueuedBy(i) ==
  LET item == step_items[i]
  IN  item.src # 0 =>
        /\ item.src < i
        /\ item.pos \in 1..Len(steps[item.src].selected)
        /\ steps[item.src].selected[item.pos] = item.path[Len(item.path)]
        /\ item.level = steps[item.src].level + 1
        /\ ParentName(ontology_dag, item.parent_url) = item.path[Len(item.path)]

\* C8: the step log is in breadth-first order: steps follow the order of the
\* pops, levels never decrease, and the steps for the children of one parent
\* come in the order of the parent's children list
C8_ChildrenListOrder ==
  /\ LogInPopOrder
  /\ \A i, j \in 1..Len(steps) :
       (i < j /\ step_items[i].src # 0 /\ step_items[i].src = step_items[j].src)
         => ChildIndex(i) <= ChildIndex(j)

\* C8 as amended: steps follow the order of the pops, levels never decrease,
\* and the steps for the children enqueued by one step come in the order of
\* that step's accepted list (in the single strategy the order of the names
\* in the oracle's answer)
C8_Amended ==
  /\ LogInPopOrder
  /\ \A i \in 1..Len(steps) : EnqueuedBy(i)
  /\ \A i, j \in 1..Len(steps) :
       (i < j /\ step_items[i].src # 0 /\ step_items[i].src = step_items[j].src)
         => step_items[i].pos < step_items[j].pos

\* C8 witness: two children of one parent have their steps in the order of
\* the accepted list, which is not the order of the children list
C8_Witness ==
  \E i, j \in 1..Len(steps) :
    /\ i < j /\ step_items[i].src # 0 /\ step_items[i].src = step_items[j].src
    /\ step_items[i].pos < step_items[j].pos
    /\ ChildIndex(i) > ChildIndex(j)

\* the event carries the step's fields and the path of the step's item
CarriesStep(event, i) ==
  /\ event.type = "step"
  /\ event.data.step.level = steps[i].level
  /\ event.data.step.parent = steps[i].parent
  /\ event.data.step.candidates = steps[i].candidates
  /\ event.data.step.selected = steps[i].selected
  /\ event.data.step.status = steps[i].status
  /\ event.data.step.error = steps[i].error
  /\ event.data.current_path = step_items[i].path

\* C9: with a progress sink registered there is one step event per recorded
\* step, in the order of the step log, each carrying its step and the
\* current path; only between the append of a step and its emission is the
\* last step without its event, so the event precedes the next pop and any
\* later oracle call
C9_StepEvents ==
  sse_callback =>
    /\ Len(events) = IF pc = "emit" THEN Len(steps) - 1 ELSE Len(steps)
    /\ \A i \in 1..Len(events) : CarriesStep(events[i], i)

\* C9 witness: a finished run with a sink that received several step events
C9_Witness ==
  /\ sse_callback /\ pc = "done"
  /\ Len(events) >= 2 /\ Len(events) = Len(steps)

\* the waits after the first n failed attempts: 1s, 2s, ...
RECURSIVE Waits(_)
Waits(n) == IF n = 0 THEN <<>> ELSE Append(Waits(n - 1), 2 ^ (n - 1))

Exhausted(res) == res.llm_response = Some(ExhaustedResponse)

\* C11: in the single strategy, when the oracle raises on every allowed
\* attempt, select_single returns an outcome with an empty accepted list and
\* status completed and no error; the step is recorded (no exception reaches
\* the run) and is handled like an empty accepted list: the path becomes a
\* terminal path if it is non-empty, and nothing is enqueued
C11_ExhaustedDegrades ==
  /\ []((mode = "single" /\ wrapper = "exhausted") =>
          /\ pc = "step" /\ Exhausted(result)
          /\ result.selected = <<>>
          /\ result.status = "completed"
          /\ result.error = None)
  /\ [](mode = "single" =>
          \A i \in 1..Len(steps) :
            Exhausted(steps[i]) =>
              /\ steps[i].selected = <<>>
              /\ steps[i].status = "completed"
              /\ steps[i].error = None)
  /\ [][(mode = "single" /\ pc = "handle" /\ Exhausted(result)) =>
          /\ final_paths' = IF cur.path # <<>> THEN Append(final_paths, cur.path)
                             ELSE final_paths
          /\ queue' = queue
          /\ steps' = steps
          /\ pc' = "loop"]_vars

\* C11 witness: below the root, every attempt of a step's oracle call raised;
\* the step was recorded as completed and its path became a terminal path
C11_Witness ==
  /\ mode = "single" /\ pc = "loop" /\ steps # <<>>
  /\ Exhausted(steps[Len(steps)])
  /\ steps[Len(steps)].status = "completed"
  /\ cur.path # <<>>
  /\ final_paths # <<>> /\ final_paths[Len(final_paths)] = cur.path

\* the names of an answer that are among the names shown
NamedAmong(response, shown) ==
  Range(ParseClassList(response[1].answer)) \cap Range(shown)

\* the agents recorded so far in select_edm
AgentsSoFar ==
  IF pc = "returned" /\ result.edm_result # NoneOpt
  THEN result.edm_result[1].agents ELSE edm.agent_results

\* C12: every accepted name of an outcome is one of the candidates passed
\* in, and every name an ensemble agent voted for is one of the names
\* assigned to that agent: the other names of an answer are dropped, the
\* names that are candidates are kept, and an outcome (or an agent) whose
\* oracle call returned an answer has no error and is not failed for it
C12_OnlyCandidatesAccepted ==
  /\ pc = "returned" => Range(result.selected) \subseteq Range(candidates)
  /\ (pc = "returned" /\ mode = "single" /\ result.llm_response # NoneOpt) =>
       /\ Range(result.selected) = NamedAmong(result.llm_response, candidates)
       /\ result.status = "completed" /\ result.error = None
  /\ \A i \in 1..Len(AgentsSoFar) :
       LET a == AgentsSoFar[i]
       IN  /\ Range(a.voted_classes) \subseteq Range(a.assigned_classes)
           /\ a.llm_response # NoneOpt =>
                /\ Range(a.voted_classes) =
                     NamedAmong(a.llm_response, a.assigned_classes)
                /\ a.status = "success" /\ a.error = None
  /\ (pc = "returned" /\ result.status = "failed") =>
       IF mode = "single" THEN result.llm_response = NoneOpt
       ELSE \E i \in 1..Len(AgentsSoFar) : AgentsSoFar[i].llm_response = NoneOpt

\* C12 witness: an ensemble outcome accepted a candidate although one agent
\* also named a class that is no candidate and another agent named a
\* candidate outside its assignment; both names were dropped without an error
C12_Witness ==
  /\ pc = "returned" /\ mode = "edm" /\ result.selected # <<>>
  /\ result.status = "completed" /\ result.error = None
  /\ \E i, j \in 1..Len(AgentsSoFar) :
       LET a == AgentsSoFar[i]
           b == AgentsSoFar[j]
       IN  /\ a.llm_response # NoneOpt /\ b.llm_response # NoneOpt
           /\ InSeq(Hallucinated, ParseClassList(a.llm_response[1].answer))
           /\ a.voted_classes # <<>>
           /\ \E n \in Range(ParseClassList(b.llm_response[1].answer)) :
                InSeq(n, candidates) /\ ~InSeq(n, b.assigned_classes)

\* the EDMResultDetail of a returned ensemble outcome
EdmReturned == pc = "returned" /\ result.edm_result # NoneOpt

\* the agents assigned the candidate c
AgentsSeeing(c, agents) ==
  {i \in 1..Len(agents) : InSeq(c, agents[i].assigned_classes)}

\* the agents assigned the candidate c whose parsed answer included it
AgentsVoting(c, agents) ==
  {i \in AgentsSeeing(c, agents) :
     /\ agents[i].llm_response # NoneOpt
     /\ InSeq(c, ParseClassList(agents[i].llm_response[1].answer))}

\* C13: in every ensemble result the vote count of a candidate is the number
\* of agents assigned that candidate whose parsed answer included it, so
\* 0 <= votes <= seen_by for every entry of the vote summary, and a
\* candidate that no agent saw has no entry
C13_VotesCountAgents ==
  EdmReturned =>
    LET e == result.edm_result[1]
    IN  /\ \A k \in 1..Len(e.votes_summary) :
             LET v == e.votes_summary[k]
             IN  /\ v.total_agents = Cardinality(AgentsSeeing(v.class_name, e.agents))
                 /\ v.vote_count = Cardinality(AgentsVoting(v.class_name, e.agents))
                 /\ 0 <= v.vote_count /\ v.vote_count <= v.total_agents
        /\ \A c \in Range(candidates) :
             AgentsSeeing(c, e.agents) = {} =>
               \A k \in 1..Len(e.votes_summary) : e.votes_summary[k].class_name # c

\* C14: an ensemble candidate is accepted if and only if votes / seen_by >=
\* consensus_threshold and votes > 0, votes being the number of agents that
\* voted for it; a candidate voted for by 2 of the 3 agents that saw it is not
\* accepted at consensus_threshold 0.8
C14_AcceptedIffConsensus ==
  EdmReturned =>
    LET e == result.edm_result[1]
        threshold == e.consensus_threshold
    IN  \A c \in Range(candidates) :
          LET votes == Cardinality(AgentsVoting(c, e.agents))
              seen_by == Cardinality(AgentsSeeing(c, e.agents))
          IN  /\ InSeq(c, result.selected) <=>
                   /\ seen_by > 0
                   /\ votes * threshold.den >= threshold.num * seen_by
                   /\ votes > 0
              /\ (votes = 2 /\ seen_by = 3 /\ threshold = [num |-> 8, den |-> 10])
                   => ~InSeq(c, result.selected)

\* the number of agents recorded as failed
FailedAgents(agents) ==
  Cardinality({i \in 1..Len(agents) : agents[i].status = "failed"})

\* C15: an ensemble outcome is failed, with the error text
\* "<failed>/<total> agents failed", exactly when more than half of its
\* agents raised an exception; otherwise it is completed with no error,
\* however many agents returned no selection; with 3 of 3 agents raising the
\* outcome is failed and the error is "3/3 agents failed"
C15_MajorityFailureRule ==
  EdmReturned =>
    LET e == result.edm_result[1]
        failed == FailedAgents(e.agents)
        total == Len(e.agents)
    IN  /\ total = e.total_agents
        /\ result.status = IF 2 * failed > total THEN "failed" ELSE "completed"
        /\ result.status = "failed" =>
             result.error = ToString(failed) \o "/" \o ToString(total)
                            \o " agents failed"
        /\ result.status = "completed" => result.error = None
        /\ (failed = 3 /\ total = 3) =>
             (result.status = "failed" /\ result.error = "3/3 agents failed")

\* C15 witness: all 3 of 3 agents raised: the outcome is failed with the
\* error "3/3 agents failed"
C15_Witness ==
  /\ EdmReturned /\ result.status = "failed"
  /\ result.error = "3/3 agents failed"
  /\ Len(result.edm_result[1].agents) = 3
  /\ \A i \in 1..3 : result.edm_result[1].agents[i].status = "failed"

\* the assignment of the ensemble step under way, or of the one that returned
EdmAssignments ==
  IF EdmReturned
  THEN [i \in 1..Len(result.edm_result[1].agents) |->
          result.edm_result[1].agents[i].assigned_classes]
  ELSE edm.agents_assignments

Min(a, b) == IF a <= b THEN a ELSE b

\* each class is given to exactly min(avg, number of agents) agents, and no
\* agent is given a class twice or a class that is not in the list
EvenlyAssigned(assignments, classes, avg) ==
  /\ \A c \in Range(classes) :
       Cardinality({a \in 1..Len(assignments) : InSeq(c, assignments[a])})
         = Min(avg, Len(assignments))
  /\ \A a \in 1..Len(assignments) :
       /\ NoRepeat(assignments[a])
       /\ Range(assignments[a]) \subseteq Range(classes)

\* C16: whatever the random choice, the assignment of an ensemble step gives
\* each candidate to exactly agents_per_class distinct agents, or to every
\* agent when there are fewer agents than agents_per_class, and no agent is
\* given a candidate twice: seen_by of every candidate is
\* min(agents_per_class, num_agents)
C16_AssignmentIsEven ==
  /\ (mode = "edm" /\ pc \in {"agent", "select", "returned"}
        /\ EdmAssignments # <<>>) =>
       /\ EvenlyAssigned(EdmAssignments, candidates, edm_options.agents_per_class)
       /\ EdmReturned =>
            \A k \in 1..Len(result.edm_result[1].votes_summary) :
              result.edm_result[1].votes_summary[k].total_agents
                = Min(edm_options.agents_per_class, Len(EdmAssignments))
  /\ (pc = "call" /\ Len(candidates) \in 1..2) =>
       \A num_agents \in 1..4, avg \in 0..4 :
         \A chosen \in [1..Len(candidates) -> AgentChoices(num_agents, avg)] :
           EvenlyAssigned(AssignClassesToAgents(candidates, num_agents, chosen),
                          candidates, avg)

\* C16 witness: with more agents than agents_per_class, two candidates were
\* given to different agents and a third agent was given nothing
C16_Witness ==
  /\ mode = "edm" /\ pc = "agent"
  /\ Len(EdmAssignments) = 3 /\ edm_options.agents_per_class = 1
  /\ \E a, b, c \in 1..3 :
       /\ EdmAssignments[a] = <<"A">>
       /\ EdmAssignments[b] = <<"B">>
       /\ EdmAssignments[c] = <<>>

\* C17: for N >= 1 candidates the number of agents of an ensemble step is
\* max(agents_per_class, floor(N * agents_per_class / classes_per_agent) + 1);
\* with 10 candidates, classes_per_agent 30 and agents_per_class 3 there are
\* 3 agents and each is assigned every candidate
C17_NumberOfAgents ==
  EdmReturned =>
    LET e == result.edm_result[1]
        N == Len(candidates)
        opts == edm_options
    IN  /\ N >= 1
        /\ Len(e.agents) = e.total_agents
        /\ \E q \in 0..(N * opts.agents_per_class) :
             /\ q * opts.classes_per_agent <= N * opts.agents_per_class
             /\ N * opts.agents_per_class < (q + 1) * opts.classes_per_agent
             /\ e.total_agents = Max(opts.agents_per_class, q + 1)
        /\ (N = 10 /\ opts.classes_per_agent = 30 /\ opts.agents_per_class = 3) =>
             /\ e.total_agents = 3
             /\ \A i \in 1..3 : e.agents[i].assigned_classes = candidates

\* C17 witness: an ensemble step over 10 candidates with the default options
\* returned with 3 agents
C17_Witness ==
  /\ EdmReturned /\ Len(candidates) = 10
  /\ edm_options = DefaultEdmOptions
  /\ result.edm_result[1].total_agents = 3

\* the retry-wrapper calls of the first k agents: one for each agent with a
\* non-empty assignment, on exactly its assignment
RECURSIVE AgentCalls(_, _)
AgentCalls(assignments, k) ==
  IF k = 0 THEN <<>>
  ELSE AgentCalls(assignments, k - 1)
       \o (IF assignments[k] # <<>>
           THEN <<[agent_id |-> k, classes |-> assignments[k]]>> ELSE <<>>)

\* C18: in an ensemble step the agents are taken one after another in
\* agent-id order; an agent with a non-empty assignment makes exactly one
\* retry-wrapped oracle call, on exactly its assignment, and an agent with an
\* empty assignment makes no call and is recorded with status success and no
\* votes
C18_OneCallPerAgent ==
  (mode = "edm" /\ pc \in {"agent", "select", "returned"}
     /\ EdmAssignments # <<>>) =>
    /\ edm.agent_id \in 1..(Len(EdmAssignments) + 1)
    /\ pc = "returned" => edm.agent_id = Len(EdmAssignments) + 1
    /\ pc = "select" => EdmAssignments[edm.agent_id] # <<>>
    /\ wrapper_calls =
         AgentCalls(EdmAssignments,
                    IF pc = "select" THEN edm.agent_id ELSE edm.agent_id - 1)
    /\ Len(AgentsSoFar) = edm.agent_id - 1
    /\ \A i \in 1..Len(AgentsSoFar) :
         LET a == AgentsSoFar[i]
         IN  /\ a.agent_id = i
             /\ a.assigned_classes = EdmAssignments[i]
             /\ a.llm_request # NoneOpt =>
                  a.llm_request[1].prompt = a.assigned_classes
             /\ a.assigned_classes = <<>> =>
                  /\ a.status = "success" /\ a.voted_classes = <<>>
                  /\ a.llm_request = NoneOpt /\ a.llm_response = NoneOpt

\* C18 witness: an ensemble step returned after two oracle calls, one for
\* each agent with a class, and none for the agent with nothing assigned
C18_Witness ==
  /\ EdmReturned /\ Len(EdmAssignments) = 3 /\ Len(wrapper_calls) = 2
  /\ \E i \in 1..3 :
       /\ EdmAssignments[i] = <<>>
       /\ AgentsSoFar[i].status = "success"
       /\ \A k \in 1..2 : wrapper_calls[k].agent_id # i
  /\ wrapper_calls[1].agent_id < wrapper_calls[2].agent_id

\* the child of the item's parent that carries the name
ChildNamed(item, name) ==
  CHOOSE u \in Range(EdgesGet(ontology_dag, item.parent_url)) :
    HasNode(ontology_dag, u) /\ ontology_dag.nodes[u] = name

\* the level, parent id and path of the frontier items
Frontier(q) ==
  [k \in 1..Len(q) |->
     <<q[k].level, q[k].parent_url, q[k].path>>]

\* C19: handling a step whose outcome is not failed and whose accepted list
\* is not empty appends to the back of the queue, for each entry of the
\* accepted list in order, one item (level + 1, id of the parent's child
\* carrying that name, path_so_far + [name]), and does not record
\* path_so_far as a terminal path
C19_AcceptedNamesEnqueued ==
  [][(pc = "handle" /\ result.status # "failed" /\ result.selected # <<>>) =>
       /\ Frontier(queue') =
            Frontier(queue)
            \o [i \in 1..Len(result.selected) |->
                  <<cur.level + 1, ChildNamed(cur, result.selected[i]),
                    Append(cur.path, result.selected[i])>>]
       /\ final_paths' = final_paths
       /\ steps' = steps
       /\ pc' = "loop"]_vars

\* C19 witness: a step accepted a name while another item was waiting: the
\* new item is behind it in the queue, and the step's path is no terminal
\* path
C19_Witness ==
  /\ pc = "loop" /\ steps # <<>> /\ Len(queue) >= 2
  /\ steps[Len(steps)].status = "completed"
  /\ steps[Len(steps)].selected # <<>>
  /\ queue[1].src # Len(steps)
  /\ queue[Len(queue)].src = Len(steps)
  /\ queue[Len(queue)].level = cur.level + 1
  /\ queue[Len(queue)].path = Append(cur.path, steps[Len(steps)].selected[1])
  /\ ~InSeq(cur.path, final_paths)

\* the item ends its path without a step: its level reached max_depth, its
\* parent has no children, or no child of its parent has a name
EndsPath(item) ==
  \/ item.level >= max_depth
  \/ EdgesGet(ontology_dag, item.parent_url) = <<>>
  \/ \A u \in Range(EdgesGet(ontology_dag, item.parent_url)) :
       ~HasNode(ontology_dag, u)

\* C20: popping an item whose level is at least max_depth, or whose parent
\* has no children, or none of whose parent's children has a name, makes no
\* Decision Engine call and records no step, and appends the item's path to
\* the terminal paths once if the path is not empty, and nothing otherwise
C20_TerminalItemNoStep ==
  [][(pc = "loop" /\ queue # <<>> /\ EndsPath(Head(queue))) =>
       /\ select_calls' = select_calls
       /\ wrapper_calls' = wrapper_calls
       /\ selection_cache' = selection_cache
       /\ steps' = steps
       /\ events' = events
       /\ final_paths' = IF Head(queue).path # <<>>
                          THEN Append(final_paths, Head(queue).path)
                          ELSE final_paths
       /\ queue' = Tail(queue)
       /\ pc' = "loop"]_vars

\* C20 witness: an item that has children was popped at level max_depth: its
\* path became a terminal path and it has no step
C20_Witness ==
  /\ pc = "loop" /\ cur # NoItem
  /\ cur.level >= max_depth /\ cur.path # <<>>
  /\ CandidateNames(ontology_dag, EdgesGet(ontology_dag, cur.parent_url)) # <<>>
  /\ final_paths # <<>> /\ final_paths[Len(final_paths)] = cur.path
  /\ \A i \in 1..Len(step_items) : step_items[i].ord # cur.ord

\* the outcome accepted nothing and is not failed
AcceptedNothing(res) == res.selected = <<>> /\ res.status = "completed"

\* C21: an outcome with an empty accepted list and status completed is no
\* error: its step is recorded with status completed and no error text,
\* handling it appends path_so_far to the terminal paths if the path is not
\* empty and enqueues nothing, and a run all of whose steps are such steps
\* ends completed with no error
C21_EmptyAcceptedIsValid ==
  /\ []((pc \in {"emit", "handle"} /\ AcceptedNothing(result)) =>
          /\ steps[Len(steps)].selected = <<>>
          /\ steps[Len(steps)].status = "completed"
          /\ steps[Len(steps)].error = None)
  /\ [][(pc = "handle" /\ AcceptedNothing(result)) =>
          /\ final_paths' = IF cur.path # <<>> THEN Append(final_paths, cur.path)
                             ELSE final_paths
          /\ queue' = queue
          /\ steps' = steps
          /\ pc' = "loop"]_vars
  /\ []((pc = "done" /\ steps # <<>>
         /\ \A i \in 1..Len(steps) : AcceptedNothing(steps[i])) =>
          (status = "completed" /\ error = None))

\* C21 witness: below the root the oracle answered and no name of its answer
\* was accepted: the step is completed, its path is the newest terminal path
\* and no item of the frontier comes from it
C21_Witness ==
  /\ pc = "loop" /\ steps # <<>>
  /\ AcceptedNothing(steps[Len(steps)])
  /\ steps[Len(steps)].error = None
  /\ steps[Len(steps)].llm_response # NoneOpt
  /\ steps[Len(steps)].llm_response[1].raw = "response"
  /\ cur.path # <<>>
  /\ final_paths # <<>> /\ final_paths[Len(final_paths)] = cur.path
  /\ \A k \in 1..Len(queue) : queue[k].src # Len(steps)

\* the run in the suspension-point form has ended
BothFormsRan == phase = "replay" /\ pc = "done" /\ Len(first) = 1

\* the run in the suspension-point form draws what the blocking run drew,
\* to the last draw
SameDraws ==
  /\ (phase = "replay" /\ pc # "done") => ENABLED Next
  /\ BothFormsRan => tape = <<>>

FromDraw(res, draw) ==
  IF draw.kind = "answer"
  THEN res.llm_response # NoneOpt /\ res.llm_response[1].answer = draw.value
  ELSE res.status = "failed" /\ res.llm_response = NoneOpt

\* in the run with frame f every memoized outcome was built from a draw of
\* that run, the k-th call from the k-th draw, and every step carries the
\* outcome memoized by that run for the step's parent
OwnOutcomes(f) ==
  /\ DOMAIN f.selection_cache \subseteq Range(f.select_calls)
  /\ \A k \in 1..Len(f.select_calls) :
       f.select_calls[k] \in DOMAIN f.selection_cache =>
         /\ k <= Len(f.tape)
         /\ FromDraw(f.selection_cache[f.select_calls[k]], f.tape[k])
  /\ Len(f.step_items) = Len(f.steps)
  /\ \A i \in 1..Len(f.steps) :
       /\ f.step_items[i].parent_url \in DOMAIN f.selection_cache
       /\ SameOutcome(f.steps[i],
                      f.selection_cache[f.step_items[i].parent_url])

\* a run made alone has ended
RanAlone == phase = "replay" /\ pc = "done" /\ Len(first) = 2

\* C23: when two runs of execute_column_async on one executor and one graph
\* are interleaved at their awaits, each run memoizes and records only
\* outcomes built from its own oracle calls, and the step log, final_paths
\* and status of each are those of a run made alone with the same oracle
\* answers
C23_RunsOwnTheirTables ==
  /\ (phase = "record" /\ other # NoneOpt) =>
       (OwnOutcomes(Frame) /\ OwnOutcomes(other[1]))
  /\ (phase = "replay" /\ pc # "done") => ENABLED InterleavedNext
  /\ RanAlone =>
       /\ tape = <<>>
       /\ steps = first[me].steps
       /\ final_paths = first[me].final_paths
       /\ status = first[me].status

\* the events of the two runs alternate in the sink
Alternating(sink) ==
  \E i, j, k \in 1..Len(sink) :
    /\ i < j /\ j < k
    /\ sink[i].data.column_name = sink[k].data.column_name
    /\ sink[i].data.column_name # sink[j].data.column_name

\* C23 witness: two runs were interleaved, each decided the root by its own
\* oracle call and with another answer, and the second reached a parent
\* twice; made alone, the second has the step log it had when interleaved
C23_Witness ==
  /\ RanAlone /\ me = 2
  /\ Alternating(first[1].events)
  /\ first[1].steps[1].selected # first[2].steps[1].selected
  /\ Len(first[1].steps) >= 2
  /\ Len(select_calls) < Len(steps)
  /\ steps = first[2].steps

\* the log old is the beginning of the log new
IsPrefix(old, new) ==
  Len(old) <= Len(new) /\ \A i \in 1..Len(old) : new[i] = old[i]

\* C24: the step recorded for an outcome carries the outcome's accepted
\* list, status, error text and trace fields unchanged, and no step of the
\* run changes or removes a step that is in the log: the log only grows at
\* its end, by the step of the item being processed
C24_StepsKeptVerbatim ==
  /\ [][pc = "step" =>
          /\ steps' = Append(steps, steps'[Len(steps')])
          /\ SameOutcome(steps'[Len(steps')], result)
          /\ steps'[Len(steps')].level = cur.level
          /\ steps'[Len(steps')].candidates = candidates]_vars
  /\ [][pc # "step" => steps' = steps]_vars
  /\ [][IsPrefix(steps, steps')]_vars
  /\ [](\A i \in 1..Len(steps) :
          steps[i].status = "failed" <=> steps[i].error # None)

\* C24 witness: a run has ended whose log holds a failed step with its error
\* text, recorded before a step of a later item that was completed
C24_Witness ==
  /\ pc = "done"
  /\ \E i, j \in 1..Len(steps) :
       /\ i < j
       /\ steps[i].status = "failed"
       /\ steps[i].error \in {EscapedError, "2/3 agents failed"}
       /\ steps[i].selected = selection_cache[step_items[i].parent_url].selected
       /\ steps[j].status = "completed" /\ steps[j].error = None

\* ------------------------------------------ claims on the depth cache
\* a CachedTree was built from the graph
Built == cached # NoneOpt

\* the edges parent -> child of the tree: child is listed in parent's children
TreeEdges(tree) ==
  UNION {{<<p, tree.nodes[p].children[i]>> :
            i \in 1..Len(tree.nodes[p].children)} : p \in DOMAIN tree.nodes}

\* the nodes that an edge path leads to from the nodes S
RECURSIVE ReachableFrom(_, _)
ReachableFrom(tree, S) ==
  LET more == S \cup {e[2] : e \in {f \in TreeEdges(tree) : f[1] \in S}}
  IN  IF more = S THEN S ELSE ReachableFrom(tree, more)

\* depth of the node url of the tree
DepthOf(tree, url) == tree.nodes[url].depth

\* C25 as stated: the root has depth 0 and along every edge of the tree the
\* depth grows by exactly one
C25_DepthGrowsByOne ==
  Built =>
    /\ DepthOf(cached[1], cached[1].root) = 0
    /\ \A e \in TreeEdges(cached[1]) :
         DepthOf(cached[1], e[2]) = DepthOf(cached[1], e[1]) + 1

\* C25 amended: the root has depth 0; along an edge whose parent the root
\* leads to, the depth grows by at most one, and every such node but the
\* root has a parent from which it grows by exactly one; a node the root
\* does not lead to has depth 0
C25_Amended ==
  Built =>
    LET tree == cached[1]
        reached == ReachableFrom(tree, {tree.root})
    IN  /\ tree.root \in DOMAIN tree.nodes
        /\ DepthOf(tree, tree.root) = 0
        /\ \A e \in TreeEdges(tree) :
             e[1] \in reached =>
               DepthOf(tree, e[2]) <= DepthOf(tree, e[1]) + 1
        /\ \A url \in reached \ {tree.root} :
             \E e \in TreeEdges(tree) :
               /\ e[2] = url /\ e[1] \in reached
               /\ DepthOf(tree, url) = DepthOf(tree, e[1]) + 1
        /\ \A url \in DOMAIN tree.nodes \ reached : DepthOf(tree, url) = 0

\* C25 witness: a tree was built in which a class has two parents of
\* different depths, both led to from the root
C25_Witness ==
  /\ Built
  /\ \E e, f \in TreeEdges(cached[1]) :
       /\ e[2] = f[2]
       /\ {e[1], f[1]} \subseteq ReachableFrom(cached[1], {cached[1].root})
       /\ DepthOf(cached[1], e[1]) < DepthOf(cached[1], f[1])
       /\ DepthOf(cached[1], e[2]) = DepthOf(cached[1], e[1]) + 1

\* the children in the tree of the nodes S
ChildrenOf(tree, S) == {e[2] : e \in {f \in TreeEdges(tree) : f[1] \in S}}

\* the length of a shortest edge path to url from the nodes of layer, which
\* are k edges from the root; seen are the nodes of the layers before
RECURSIVE Distance(_, _, _, _, _)
Distance(tree, url, layer, seen, k) ==
  IF url \in layer THEN k
  ELSE IF layer = {} THEN -1
  ELSE Distance(tree, url, ChildrenOf(tree, layer) \ (seen \cup layer),
                seen \cup layer, k + 1)

\* C26: every node the root leads to has as depth the length of a shortest
\* edge path from the root; the tree holds the nodes of the graph, the
\* metadata's node count is their number and its max depth is the largest
\* depth of a node
C26_DepthIsDistance ==
  Built =>
    LET tree == cached[1]
    IN  /\ \A url \in ReachableFrom(tree, {tree.root}) :
             DepthOf(tree, url) = Distance(tree, url, {tree.root}, {}, 0)
        /\ DOMAIN tree.nodes = DOMAIN ontology_dag.nodes
        /\ tree.metadata.total_nodes = Cardinality(DOMAIN tree.nodes)
        /\ \E url \in DOMAIN tree.nodes :
             tree.metadata.max_depth = Some(DepthOf(tree, url))
        /\ \A url \in DOMAIN tree.nodes :
             DepthOf(tree, url) <= tree.metadata.max_depth[1]

\* C26 witness: a tree of four nodes was built in which a class two edges
\* from the root is also the end of a path of three edges, and the
\* metadata say four nodes and a max depth of two
C26_Witness ==
  /\ Built
  /\ cached[1].metadata = [total_nodes |-> 4, max_depth |-> Some(2)]
  /\ \E e, f, g \in TreeEdges(cached[1]) :
       /\ e[1] = cached[1].root /\ e[2] = f[1] /\ f[2] = g[1]
       /\ <<e[2], g[2]>> \in TreeEdges(cached[1])
       /\ Cardinality({e[1], f[1], g[1], g[2]}) = 4
       /\ DepthOf(cached[1], g[2]) = 2

\* ------------------------------------ claims on the graph construction
\* build_dag has returned
Constructed == ontology_dag.root # None

\* the parents of the class c that are classes: the restrictions and c
\* itself are none
ParentsOf(c) == Range(c.is_a) \ {Restriction, c.url}

\* the urls of the classes of cs that satisfy Test, in the order of cs
UrlsWhere(cs, Test(_)) ==
  LET kept == SelectSeq(cs, Test) IN [i \in 1..Len(kept) |-> kept[i].url]

\* c declares no parent at all
Parentless(c) == ParentsOf(c) = {}

\* c declares no parent but, at most, Thing
TopLevel(c) == ParentsOf(c) \subseteq {Thing}

\* the virtual root is the root, it is the one node that is no class of the
\* source, and its children are the classes tops in their order
VirtualRootOver(tops) ==
  /\ ontology_dag.root = Thing
  /\ DOMAIN ontology_dag.nodes
       = {onto_classes[i].url : i \in 1..Len(onto_classes)} \cup {Thing}
  /\ GetOrEmpty(ontology_dag.edges, Thing) = tops

DeclaresThing(c) == Thing \in ParentsOf(c)

Childless(url) ==
  /\ \A i \in 1..Len(onto_classes) : url \notin ParentsOf(onto_classes[i])
  /\ url = Thing => Len(UrlsWhere(onto_classes, Parentless)) < 2

\* the last call was get_children
AskedChildren(r) == r # NoneOpt /\ r[1].call = "get_children"

\* C29: a get_children call on a constructed graph leaves the nodes, the
\* edges and the root of the graph as they were, and what it returns for a
\* leaf and for an id the graph does not hold is the empty sequence
C29_GetChildrenOfLeafOrUnknown ==
  [][(Constructed /\ AskedChildren(returned')) =>
       /\ ontology_dag' = ontology_dag
       /\ Childless(returned'[1].url) => returned'[1].value = <<>>]_vars

\* C29 witness: on a graph with an edge, get_children was asked about an id
\* the graph does not hold and returned the empty sequence
C29_Witness ==
  /\ Constructed /\ AskedChildren(returned)
  /\ returned[1].url = Unknown
  /\ returned[1].value = <<>>
  /\ ontology_dag.edges # <<>>
  /\ Unknown \notin DOMAIN ontology_dag.nodes \cup DOMAIN ontology_dag.edges

\* ------------------------------------------------ claims on subtrees
\* the last call was get_subtree with the limit max_depth
AskedSubtree(limit) ==
  /\ returned # NoneOpt
  /\ returned[1].call = "get_subtree"
  /\ returned[1].max_depth = limit

\* the node a subtree was asked from: the node named, or the root of the
\* tree when none was named or the tree does not hold the one named
Requested(tree, root_url) ==
  IF root_url \in DOMAIN tree.nodes THEN root_url ELSE tree.root

\* C30: a subtree asked with max_depth 0 holds the requested node and no
\* other; the node has no children listed, has_more says whether it has
\* children in the tree it was taken from, and the rest of it is as there
C30_SubtreeOfDepthZero ==
  AskedSubtree(Some(0)) =>
    LET view == returned[1].value
        start == Requested(cached[1], returned[1].url)
        node == cached[1].nodes[start]
    IN  /\ view.root = start
        /\ DOMAIN view.nodes = {start}
        /\ view.nodes[start]
             = [node EXCEPT !.children = <<>>,
                            !.has_more = node.children # <<>>]

\* C30 witness: a subtree was asked with max_depth 0 from a class that is
\* not the root and has children, in a tree of four nodes: it holds that
\* class alone, with has_more set
C30_Witness ==
  /\ AskedSubtree(Some(0))
  /\ returned[1].url \in DOMAIN cached[1].nodes \ {cached[1].root}
  /\ cached[1].nodes[returned[1].url].children # <<>>
  /\ cached[1].metadata.total_nodes = 4
  /\ DOMAIN returned[1].value.nodes = {returned[1].url}
  /\ returned[1].value.nodes[returned[1].url].has_more

\* the last call was get_subtree with a limit
AskedBounded ==
  returned # NoneOpt /\ returned[1].call = "get_subtree"
    /\ returned[1].max_depth # NoneOpt

\* the number of edges of a shortest path in the tree src from start to url
RelativeDepth(src, start, url) == Distance(src, url, {start}, {}, 0)

\* the subtree view of src from start with the bound d holds the nodes at
\* most d edges from start; a node d edges from start is cut: it lists no
\* children and has_more says whether it has children in src; every other
\* node lists its children of src, and its has_more is MoreBelow of it
BoundedSubtree(src, start, d, view, MoreBelow(_)) ==
  /\ DOMAIN view.nodes
       = {url \in ReachableFrom(src, {start}) :
            RelativeDepth(src, start, url) <= d}
  /\ \A url \in DOMAIN view.nodes :
       LET node == src.nodes[url]
           got == view.nodes[url]
       IN  IF RelativeDepth(src, start, url) = d
           THEN got.children = <<>> /\ got.has_more = (node.children # <<>>)
           ELSE got.children = node.children /\ got.has_more = MoreBelow(url)

GotSubtree(r) == r # NoneOpt /\ r[1].call = "get_subtree"

\* C32: a get_subtree call, whatever root_url and max_depth it is given,
\* leaves the tree it is called on as it was: its root, its nodes with
\* their children, depth and has_more, and its metadata; the graph the
\* tree was built from is left as it was too
C32_SubtreeLeavesSource ==
  [][(Built /\ GotSubtree(returned')) =>
       /\ cached'[1].root = cached[1].root
       /\ DOMAIN cached'[1].nodes = DOMAIN cached[1].nodes
       /\ \A url \in DOMAIN cached[1].nodes :
            cached'[1].nodes[url] = cached[1].nodes[url]
       /\ cached'[1].metadata = cached[1].metadata
       /\ ontology_dag' = ontology_dag]_vars

\* C32 witness: a subtree was asked with the bound 1 and an id the tree
\* does not hold; the result is truncated and its root has has_more set,
\* and the root of the tree has its children and no has_more
C32_Witness ==
  /\ GotSubtree(returned)
  /\ returned[1].url = Unknown /\ returned[1].max_depth = Some(1)
  /\ returned[1].value.metadata.truncated
  /\ returned[1].value.nodes[cached[1].root].has_more
  /\ ~cached[1].nodes[cached[1].root].has_more
  /\ cached[1].metadata.max_depth = Some(3)
  /\ \E c \in Range(cached[1].nodes[cached[1].root].children) :
       /\ returned[1].value.nodes[c].children = <<>>
       /\ cached[1].nodes[c].children # <<>>

\* C33 as stated: the subtree and the tree it was taken from share nothing
\* that can change: a change the caller makes to the subtree leaves the
\* tree as it was, and a change the caller makes to the tree leaves the
\* subtree as it was
C33_SubtreeIsIndependent ==
  [][GotSubtree(returned) =>
       /\ returned'[1].call = "result changed" => cached' = cached
       /\ returned'[1].call = "source changed"
            => returned'[1].value = returned[1].value]_vars

\* ------------------------------------------ claims on the event stream
\* C34 as stated, of a client that found the run in progress when its
\* stream began: what it has received after the connected message
\* are the events emitted since it registered, in the order of emission,
\* and the stream of a client is closed only after a run_complete event or
\* an error event was delivered to it
C34_StreamEndsWithRun ==
  /\ client.pc \in {"waiting", "closed"} =>
       \A i \in 2..Len(client.received) :
         client.received[i] = events[client.joined + i - 1]
  /\ client.pc = "closed" =>
       client.received[Len(client.received)].type
         \in {"run_complete", "error"}

\* ------------------------------------- claims on the oracle's exceptions
\* an attempt of the oracle raises in this step
OracleRaises == wrapper = "running" /\ attempt' = attempt + 1

\* C35: an exception of the oracle makes nothing failed. While attempts are
\* left, no outcome is recorded; when the last attempt raised, the single
\* strategy gives a completed outcome that accepts nothing and has no
\* error text, and the ensemble records the agent with the status success
\* and no votes; the number of failed agents stays what it was
C35_OracleExceptionsNeverFail ==
  [][OracleRaises =>
       /\ edm'.failed_agents = edm.failed_agents
       /\ wrapper' # "exhausted" => (result' = result /\ edm' = edm)
       /\ (wrapper' = "exhausted" /\ mode = "single") =>
            /\ result'.status = "completed"
            /\ result'.selected = <<>>
            /\ result'.error = None
       /\ (wrapper' = "exhausted" /\ mode = "edm") =>
            /\ Len(edm'.agent_results) = Len(edm.agent_results) + 1
            /\ edm'.agent_results[Len(edm'.agent_results)].status = "success"
            /\ edm'.agent_results[Len(edm'.agent_results)].voted_classes
                 = <<>>
            /\ edm'.agent_results[Len(edm'.agent_results)].error
                 = None]_vars

\* C35 witness: every agent of an ensemble was asked and the oracle raised
\* on every attempt of every one of them: each has the status success, and
\* no agent is counted as failed
C35_Witness ==
  /\ mode = "edm" /\ pc = "agent"
  /\ Len(edm.agent_results) >= 2
  /\ edm.agent_id > Len(edm.agents_assignments)
  /\ \A i \in 1..Len(edm.agent_results) :
       /\ edm.agent_results[i].llm_response = Some(ExhaustedResponse)
       /\ edm.agent_results[i].status = "success"
  /\ edm.failed_agents = 0

\* ---------------------------------------- claims on repeated names
\* C36 as stated: the accepted list of every step of a column run, whose
\* candidates have distinct names, holds no name more than once, whatever
\* the oracle answers; the frontier holds no item twice and final_paths
\* holds no path twice
C36_AcceptedHasNoRepeats ==
  /\ \A i \in 1..Len(steps) :
       NoRepeat(steps[i].candidates) => NoRepeat(steps[i].selected)
  /\ NoRepeat([i \in 1..Len(queue) |->
                 <<queue[i].parent_url, queue[i].path>>])
  /\ NoRepeat(final_paths)

\* ---------------------------------------- claims on the terminal paths
\* a path without its trailing "[terminated]" marker
NamesOf(path) ==
  IF path # <<>> /\ path[Len(path)] = Terminated
  THEN SubSeq(path, 1, Len(path) - 1)
  ELSE path

\* names is a chain of the graph from url: its first name is the name of a
\* child of url, and the rest is a chain from that child
RECURSIVE IsChain(_, _, _)
IsChain(g, url, names) ==
  \/ names = <<>>
  \/ \E i \in 1..Len(EdgesGet(g, url)) :
       LET child == EdgesGet(g, url)[i]
       IN  /\ HasNode(g, child)
           /\ g.nodes[child] = Head(names)
           /\ IsChain(g, child, Tail(names))

\* C37: every path in final_paths, without a trailing "[terminated]"
\* marker, is a chain of names of the graph from the root with at most
\* max_depth names, and the level of every frontier item is the length of
\* its path
C37_PathsAreRootChains ==
  /\ \A i \in 1..Len(final_paths) :
       /\ IsChain(ontology_dag, ontology_dag.root, NamesOf(final_paths[i]))
       /\ Len(NamesOf(final_paths[i])) <= max_depth
  /\ \A i \in 1..Len(queue) : queue[i].level = Len(queue[i].path)

\* C37 witness: a finished run holds a path of two names that reached the
\* depth bound or a leaf and a path cut short by a failed step, and a
\* frontier item below the root was enqueued on the way
C37_Witness ==
  /\ pc = "done"
  /\ \E i \in 1..Len(final_paths) :
       /\ Len(final_paths[i]) >= 2
       /\ NamesOf(final_paths[i]) = final_paths[i]
  /\ \E i \in 1..Len(final_paths) :
       /\ NamesOf(final_paths[i]) # final_paths[i]
       /\ NamesOf(final_paths[i]) # <<>>

\* ------------------------------- claims on the reach of the graph's root
\* the classes and foreign urls that an is_a path leads to from the urls S
RECURSIVE Ancestors(_, _)
Ancestors(cs, S) ==
  LET more == S \cup UNION {ParentsOf(cs[i]) :
                              i \in {j \in 1..Len(cs) : cs[j].url \in S}}
  IN  IF more = S THEN S ELSE Ancestors(cs, more)

\* no class of cs is its own ancestor
Acyclic(cs) ==
  \A i \in 1..Len(cs) : cs[i].url \notin Ancestors(cs, ParentsOf(cs[i]))

\* the urls that a path of parent -> child edges of the graph leads to
\* from the urls S
RECURSIVE DagReach(_, _)
DagReach(g, S) ==
  LET more == S \cup UNION {Range(EdgesGet(g, u)) : u \in S}
  IN  IF more = S THEN S ELSE DagReach(g, more)

\* C38 as stated: after the construction of the graph from class definitions
\* without a cycle, the root is a node and every node is reached from the
\* root along the edges
C38_EveryClassReachable ==
  (Constructed /\ Acyclic(onto_classes)) =>
    /\ ontology_dag.root \in DOMAIN ontology_dag.nodes
    /\ DOMAIN ontology_dag.nodes \subseteq
         DagReach(ontology_dag, {ontology_dag.root})

====
